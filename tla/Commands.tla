------------------------------ MODULE Commands ------------------------------
(***************************************************************************)
(* The commands of src/mess/simple-cli-client.cc that read or change       *)
(* registers, memory and breakpoints, run against DBClient's cache.        *)
(*                                                                         *)
(* A command is one step, from its words to its output; `out' keeps what   *)
(* it printed or stored.  Inside the step its calls happen in the order of *)
(* the code, and the VM may throw at any of them ("All functions may throw *)
(* a VMApi::Error", vm-api.hh:27), so the steps differ in how far the      *)
(* command came.                                                           *)
(*                                                                         *)
(* A word for a register is [by, reg]: its "id", its "name", an "alias"    *)
(* that the VM knows it by, or "junk", a word without the '%'.             *)
(***************************************************************************)
EXTENDS DBClient, CommandValues

CONSTANTS
    RegSize,   \* size of every register in bytes
    MemSize,   \* size of the memory in bytes
    SymAddr,   \* address of every symbol, an unsigned number of 64 bits
    NoReg,     \* what no register is called
    RegArgs,   \* the sequences of register words that preg and pregi get
    AddrArgs,  \* the words that pmem, smem, b and delb get for an address
    StoreArgs, \* the pairs of register and value words that sreg and smem get
    TypeArgs   \* the types considered

ASSUME CommandsAssumption ==
    /\ RegSize \in Nat \ {0} /\ MemSize \in Nat \ {0}
    /\ Val = [1 .. RegSize -> Byte]
    /\ NoReg \notin Reg /\ TypeArgs \subseteq TypeDesc
    /\ SymAddr \in [DOMAIN SymAddr -> 0 .. 2 * LongMax + 1]
    /\ \A args \in RegArgs \cup {st[1] : st \in StoreArgs} :
          \A i \in DOMAIN args : args[i].reg \in Reg \cup {NoReg}
    /\ \A st \in StoreArgs :
          /\ Len(st[1]) = Len(st[2]) /\ Len(st[1]) \in Nat
          /\ \A i \in 1 .. 2 : DOMAIN st[i] = 1 .. Len(st[i])
          /\ \A i \in DOMAIN st[2] : IsWord(st[2][i])
    /\ \A word \in AddrArgs : IsWord(word)

VARIABLES
    mem,       \* the VM's memory
    bkps,      \* the debugger's breakpoints
    aborted,   \* did an assert end the client?
    out        \* what the last command showed or stored

cmdVars == <<dbcVars, mem, bkps, aborted, out>>

Addr    == 0 .. MemSize - 1
Quiet   == [cmd |-> "none", ty |-> "u8", at |-> <<>>, vals |-> <<>>]
Error   == [Quiet EXCEPT !.cmd = "error"]

Prompt  == clientState = "VM_STOPPED" /\ ~aborted /\ out = Quiet

-----------------------------------------------------------------------------
(* Resolving the words of a command.  The result is the set of ways it can *)
(* end: how, and which registers are known to the cache then.              *)

Outcome(how, known) == [how |-> how, known |-> known]

(* r_reg of every word. *)
r_reg(args) == \A i \in DOMAIN args : args[i].by # "junk"

Ids(args) == {args[i].reg : i \in DOMAIN args}

(* resolve_regs with DBClient::find_regs_ids: the names the cache does not *)
(* have are looked up and their registers loaded.  The cache has a         *)
(* register under its own name only, so an alias is never found after it   *)
(* was loaded (the assert of db-client.cc:105).                            *)
resolve_regs(args) ==
    LET named == {args[i].reg : i \in {j \in DOMAIN args : args[j].by # "id"}}
        alias == \E i \in DOMAIN args : args[i].by = "alias"
        miss  == alias \/ ~(named \subseteq regKnown)
    IN  (IF miss THEN {Outcome("error", regKnown)} ELSE {})
        \cup CASE NoReg \in named -> {}
               [] NoReg \notin named /\ alias -> {Outcome("abort", regKnown \cup named)}
               [] OTHER -> {Outcome("ok", regKnown \cup named)}

(* _fetch_reg_infos_by_id after resolve_regs.                              *)
RegOutcomes(args) ==
    LET then(o) == IF o.how # "ok" \/ Ids(args) \subseteq o.known THEN {o}
                   ELSE {Outcome("error", o.known)} \cup
                        (IF NoReg \in Ids(args) THEN {}
                         ELSE {Outcome("ok", o.known \cup Ids(args))})
    IN  UNION {then(o) : o \in resolve_regs(args)}

(* An address as a long long.                                              *)
ToLong(addr) == IF addr <= LongMax THEN addr ELSE addr - 2 * (LongMax + 1)

(* r_value and resolve_vals of one word: symbols become their addresses.   *)
resolve_val(word) ==
    LET v == r_value(word)
    IN  CASE v.type # "SYM" -> v
          [] v.type = "SYM" /\ v.val \in DOMAIN SymAddr ->
                 [type |-> "IVAL", val |-> ToLong(SymAddr[v.val])]
          [] OTHER -> [type |-> "ERR", val |-> 0]

r_values(words) == \A i \in DOMAIN words : r_value(words[i]).type # "ERR"

SymbolsKnown(words) == \A i \in DOMAIN words : resolve_val(words[i]).type # "ERR"

UsesSymbol(words) == \E i \in DOMAIN words : words[i].k = "sym"

(* What load_val may make of the values of a command.                      *)
Buffers(words, ty) ==
    LET loads == [i \in DOMAIN words |-> load_val(resolve_val(words[i]), ty)]
    IN  {bufs \in [DOMAIN words -> UNION Range(loads)] :
            \A i \in DOMAIN words : bufs[i] \in loads[i]}

(* The address of pmem, smem, b and delb.                                  *)
AddressOK(word) == resolve_val(word).type = "IVAL" /\ resolve_val(word).val >= 0

-----------------------------------------------------------------------------
(* Ends of a command.  An error is printed, and the client goes on.        *)

serverUnchanged == UNCHANGED <<serverVars, mem, bkps>>

Throws == out' = Error /\ serverUnchanged /\ UNCHANGED <<clientVars, lapses, aborted>>

ThrowsKnowing(known) ==
    /\ out' = Error
    /\ regKnown' = known
    /\ serverUnchanged /\ UNCHANGED <<clientState, regVal, lapses, aborted>>

Aborts(known) ==
    /\ aborted' = TRUE
    /\ out' = Quiet
    /\ regKnown' = known
    /\ serverUnchanged /\ UNCHANGED <<clientState, regVal, lapses>>

(* How the registers of a command may fail before its own work.            *)
RegistersFail(args) ==
    \E o \in RegOutcomes(args) :
       \/ o.how = "error" /\ ThrowsKnowing(o.known)
       \/ o.how = "abort" /\ Aborts(o.known)

Resolved(args, known) == Outcome("ok", known) \in RegOutcomes(args)

-----------------------------------------------------------------------------
(* Registers.                                                              *)

(* get_regs copies as many bytes as the type has, past the end of the      *)
(* value if the register is smaller (db-client.cc:60).                     *)
Copied(val, junk, size) ==
    [i \in 1 .. size |-> IF i <= RegSize THEN val[i] ELSE junk[i]]

cmd_preg(ty, args) ==
    /\ Prompt
    /\ \/ ~r_reg(args) /\ Throws
       \/ r_reg(args) /\ RegistersFail(args)
       \/ \E known \in SUBSET Reg :
             /\ r_reg(args) /\ Resolved(args, known)
             /\ \/ ThrowsKnowing(known)        \* no values
                \/ /\ regKnown' = known
                   /\ fetch_reg_vals(Ids(args))
                   /\ \E junk \in [RegSize + 1 .. type_desc_size(ty) -> Byte] :
                        out' = [cmd |-> "preg", ty |-> ty, at |-> args,
                                vals |-> [i \in DOMAIN args |->
                                   print_val(Copied(regVal'[args[i].reg], junk,
                                                    type_desc_size(ty)), ty)]]
                   /\ serverUnchanged /\ UNCHANGED <<clientState, lapses, aborted>>

cmd_pregi(args) ==
    /\ Prompt
    /\ \/ ~r_reg(args) /\ Throws
       \/ r_reg(args) /\ RegistersFail(args)
       \/ \E known \in SUBSET Reg :
             /\ r_reg(args) /\ Resolved(args, known)
             /\ regKnown' = known
             /\ out' = Quiet
             /\ serverUnchanged /\ UNCHANGED <<clientState, regVal, lapses, aborted>>

LastOf(args, n, r, i) == args[i].reg = r /\ \A j \in i + 1 .. n : args[j].reg # r

(* What the first n assignments of sreg leave in the registers they name.  *)
(* The VM takes as many bytes as its register has from the buffer, which   *)
(* may have less.                                                          *)
Assigned(args, bufs, ty, junk, n) ==
    LET last(r) == CHOOSE i \in 1 .. n : LastOf(args, n, r, i)
    IN  [r \in {args[i].reg : i \in 1 .. n} |->
            [b \in 1 .. RegSize |->
                IF b <= type_desc_size(ty) THEN bufs[last(r)][b] ELSE junk[b]]]

(* DBClient::set_regs: the VM writes register after register and may throw *)
(* at one, then the cache follows; the sizes are compared last.            *)
StoreRegs(ty, args, words, bufs, junk) ==
    \E n \in 0 .. Len(args) :
       LET vals == Assigned(args, bufs, ty, junk, n)
           done == n = Len(args) /\ type_desc_size(ty) = RegSize
       IN  /\ vmReg' = Merge(vmReg, vals)
           /\ regVal' = IF done THEN Merge(regVal, vals) ELSE regVal
           /\ lapses' = IF done \/ n = 0 THEN lapses ELSE lapses \cup {"set_regs"}
           /\ aborted' = (n = Len(args) /\ ~done)
           /\ out' = CASE n < Len(args) -> [Error EXCEPT !.at = args]
                       [] aborted'      -> Quiet
                       [] OTHER -> [cmd |-> "sreg", ty |-> ty, at |-> args, vals |-> words]

cmd_sreg(ty, args, words) ==
    /\ Prompt
    /\ \/ ~(r_reg(args) /\ r_values(words)) /\ Throws
       \/ /\ r_reg(args) /\ r_values(words)
          /\ \/ RegistersFail(args)
             \/ \E o \in resolve_regs(args) :
                   UsesSymbol(words) /\ o.how = "ok" /\ ThrowsKnowing(o.known)
             \/ \E known \in SUBSET Reg :
                   /\ SymbolsKnown(words) /\ Resolved(args, known)
                   /\ regKnown' = known
                   /\ \E bufs \in Buffers(words, ty),
                         junk \in [type_desc_size(ty) + 1 .. RegSize -> Byte] :
                            StoreRegs(ty, args, words, bufs, junk)
                   /\ UNCHANGED <<clientState, running, mem, bkps>>

-----------------------------------------------------------------------------
(* Memory.  The VM refuses what is not inside it, and may throw anyway.    *)

cmd_pmem(ty, addrWord, items) ==
    /\ Prompt
    /\ LET size == items * type_desc_size(ty)
           addr == resolve_val(addrWord).val
       IN  \/ Throws
           \/ /\ AddressOK(addrWord) /\ addr + size <= MemSize
              /\ out' = [cmd |-> "pmem", ty |-> ty, at |-> <<addr>>,
                         vals |-> [i \in 1 .. items |->
                             print_val(SubSeq([a \in 1 .. MemSize |-> mem[a - 1]],
                                              addr + (i - 1) * type_desc_size(ty) + 1,
                                              addr + i * type_desc_size(ty)), ty)]]
              /\ serverUnchanged /\ UNCHANGED <<clientVars, lapses, aborted>>

cmd_smem(ty, addrWord, words) ==
    /\ Prompt
    /\ LET len  == type_desc_size(ty)
           addr == resolve_val(addrWord).val
       IN  \/ Throws
           \/ /\ AddressOK(addrWord) /\ r_values(words) /\ SymbolsKnown(words)
              /\ addr + Len(words) * len <= MemSize
              /\ \E bufs \in Buffers(words, ty) :
                    mem' = [a \in Addr |->
                               IF a \in addr .. addr + Len(words) * len - 1
                               THEN bufs[(a - addr) \div len + 1][((a - addr) % len) + 1]
                               ELSE mem[a]]
              /\ out' = [cmd |-> "smem", ty |-> ty, at |-> <<addr>>, vals |-> words]
              /\ UNCHANGED <<clientVars, serverVars, lapses, bkps, aborted>>

-----------------------------------------------------------------------------
(* Breakpoints and execution.                                              *)

(* Mutant of cmd_b: the address is checked after it was inserted.          *)
MutB(word) ==
    /\ Prompt
    /\ LET addr == resolve_val(word).val
       IN  /\ AddressOK(word)
           /\ bkps' = bkps \cup {addr}
           /\ out' = IF addr \in Addr \ bkps THEN Quiet ELSE Error
    /\ UNCHANGED <<clientVars, serverVars, lapses, mem, aborted>>

cmd_b(word) ==
    /\ Prompt
    /\ LET addr == resolve_val(word).val
       IN  \/ ~AddressOK(word) /\ Throws
           \/ UsesSymbol(<<word>>) /\ Throws
           \/ AddressOK(word) /\ addr \notin Addr \ bkps /\ Throws
           \/ /\ AddressOK(word) /\ addr \in Addr \ bkps
              /\ bkps' = bkps \cup {addr}
              /\ out' = Quiet
              /\ UNCHANGED <<clientVars, serverVars, lapses, mem, aborted>>

cmd_delb(word) ==
    /\ Prompt
    /\ LET addr == resolve_val(word).val
       IN  \/ ~AddressOK(word) /\ Throws
           \/ UsesSymbol(<<word>>) /\ Throws
           \/ AddressOK(word) /\ addr \notin bkps /\ Throws
           \/ /\ AddressOK(word) /\ addr \in bkps
              /\ bkps' = bkps \ {addr}
              /\ out' = Quiet
              /\ UNCHANGED <<clientVars, serverVars, lapses, mem, aborted>>

(* continue, step, next and finish; a finished program refuses.            *)
cmd_resume ==
    /\ Prompt
    /\ \/ Throws
       \/ resumeProgram /\ out' = Quiet /\ UNCHANGED <<mem, bkps, aborted>>

(* exec with a word that is no command, or with words missing.             *)
BadCommand == Prompt /\ Throws

-----------------------------------------------------------------------------
Init ==
    /\ DBClientInit
    /\ mem \in [Addr -> Byte]
    /\ bkps = {} /\ aborted = FALSE /\ out = Quiet

(* What happens between commands: the program, the connection, and the     *)
(* polling of the client.  This is odb-client-simple-cli, which never      *)
(* calls stop(); module DBClient has it.                                   *)
Between ==
    /\ ~aborted
    /\ \/ ProgramRuns /\ mem' \in [Addr -> Byte]
       \/ (connect \/ check_stopped) /\ UNCHANGED mem
    /\ UNCHANGED <<bkps, aborted, out>>

(* The client prints what exec returned and reads the next command.        *)
Shows ==
    /\ ~aborted /\ out # Quiet
    /\ out' = Quiet
    /\ serverUnchanged /\ UNCHANGED <<clientVars, lapses, aborted>>

Next ==
    \/ Shows \/ Between \/ cmd_resume \/ BadCommand
    \/ \E args \in RegArgs : cmd_pregi(args)
    \/ \E ty \in TypeArgs, args \in RegArgs : cmd_preg(ty, args)
    \/ \E ty \in TypeArgs, st \in StoreArgs : cmd_sreg(ty, st[1], st[2])
    \/ \E ty \in TypeArgs, at \in AddrArgs, items \in 1 .. 2 : cmd_pmem(ty, at, items)
    \/ \E ty \in TypeArgs, at \in AddrArgs, st \in StoreArgs : cmd_smem(ty, at, st[2])
    \/ \E word \in AddrArgs : cmd_b(word) \/ cmd_delb(word)

Spec == Init /\ [][Next]_cmdVars

-----------------------------------------------------------------------------
(* Properties.                                                             *)

Unsigned(bytes) == Places(ByteMod, bytes)

(* n is the number of type ty that the bytes encode.                       *)
Denotes(n, bytes, ty) ==
    /\ n \in Int /\ Fits(n, ty)
    /\ (Unsigned(bytes) - n) % Span(ty) = 0

(* A type of more bytes than the register has is not covered, nor are      *)
(* values out of date after a set_regs that failed half way.               *)
PregTruth ==
    out.cmd = "preg" /\ lapses = {} /\ type_desc_size(out.ty) <= RegSize =>
       \A i \in DOMAIN out.at :
          Denotes(out.vals[i],
                  SubSeq(vmReg[out.at[i].reg], 1, type_desc_size(out.ty)), out.ty)

(* The bytes of item i of an array of type ty in memory.                   *)
Item(addr, i, ty) ==
    [b \in 1 .. type_desc_size(ty) |-> mem[addr + (i - 1) * type_desc_size(ty) + b - 1]]

PmemTruth ==
    out.cmd = "pmem" =>
       \A i \in DOMAIN out.vals : Denotes(out.vals[i], Item(out.at[1], i, out.ty), out.ty)

(* What preg and pmem print is what the VM's registers and memory hold at  *)
(* that moment, read as the type asked for, however the value came into    *)
(* the client's cache (simple-cli-client.cc:380-413, 490-517;              *)
(* db-client.cc:48-64).                                                    *)
PrintsTruth == PregTruth /\ PmemTruth

(* The number a value word stands for.                                     *)
Meant(word) == IF word.k = "sym" THEN SymAddr[word.sym] ELSE TypedValue(word)

(* The last sreg or smem put in place what its value words mean, of those  *)
(* that are counted and values of the type.                                *)
SregHolds(counted(_)) ==
    out.cmd = "sreg" =>
       \A r \in Ids(out.at) :
          \E i \in DOMAIN out.at :
             /\ LastOf(out.at, Len(out.at), r, i)
             /\ counted(out.vals[i]) /\ Fits(Meant(out.vals[i]), out.ty) =>
                   Denotes(Meant(out.vals[i]), vmReg[r], out.ty)

SmemHolds(counted(_)) ==
    out.cmd = "smem" =>
       \A i \in DOMAIN out.vals :
          counted(out.vals[i]) /\ Fits(Meant(out.vals[i]), out.ty) =>
             Denotes(Meant(out.vals[i]), Item(out.at[1], i, out.ty), out.ty)

NoMinus(word) == word.k = "sym" \/ ~word.neg

Exact(word) == Meant(word) <= DoubleExact

Plain(word) == NoMinus(word) /\ Exact(word)

(* A sreg or smem that reports no error left in the VM the values that     *)
(* were typed, the last one of a register named twice, for every base and  *)
(* for symbols (simple-cli-client.cc:70-128, 165-208, 415-446, 519-547).   *)
(* It is stated for values of the type, up to 2^53 and without a minus     *)
(* sign: another value has no defined outcome (load_val), beyond 2^53 the  *)
(* detour through a double rounds, and of negative ones NegativesStored    *)
(* says what becomes.                                                      *)
StoresWhatWasTyped == SregHolds(Plain) /\ SmemHolds(Plain)

(* simple-cli-client.hh:81, of the values of sreg and smem: "<int> :       *)
(* signed in base 2/8/10/16".                                              *)
NegativesStored == SregHolds(Exact) /\ SmemHolds(Exact)

(* A command that ends in an error left registers, memory, breakpoints and *)
(* the program as they were, except a sreg of several registers, which     *)
(* keeps those written before the one that failed                          *)
(* (db-client-impl-vmside.cc:70-77; simple-cli-client.cc:375-377).         *)
ErrorChangesNothing ==
    [][out'.cmd = "error" =>
          /\ UNCHANGED <<mem, bkps, running>>
          /\ Len(out'.at) <= 1 => UNCHANGED vmReg]_cmdVars
=============================================================================
