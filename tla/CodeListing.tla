---------------------------- MODULE CodeListing ----------------------------
(***************************************************************************)
(* The commands of src/mess/simple-cli-client.cc that show code, symbols   *)
(* and the call stack, on top of the debugger's symbol cache.  The VM's    *)
(* instructions may span several addresses; it disassembles at any address *)
(* inside its memory, and where the program stopped is free.               *)
(***************************************************************************)
EXTENDS SymbolCache

CONSTANTS
    Layouts,   \* the ways the VM may decode its memory: functions from the
               \* addresses to the size of an instruction read there
    Lines      \* the arguments of the command `code' considered

ASSUME CodeListingAssumption ==
    /\ \A sizes \in Layouts : DOMAIN sizes = MemAddr /\ Range(sizes) \subseteq Nat \ {0}
    /\ Lines \subseteq Nat

VARIABLES
    insSize,   \* the layout of this VM's code
    listing    \* the output of a `code' that is at work

listVars == <<symVars, insSize, listing>>

NoListing == [point |-> 0, n |-> 0, lines |-> <<>>, labels |-> {}]

-----------------------------------------------------------------------------
(* n addresses before the current one, not n instructions.                 *)
Start(point, n) == IF point < n THEN 0 ELSE point - n

(* code_addrs: the addresses of 2n + 1 instructions in a row.              *)
code_addrs(point, n) ==
    LET addr[i \in 1 .. 2 * n + 1] ==
            IF i = 1 THEN Start(point, n)
            ELSE IF addr[i - 1] \in MemAddr THEN addr[i - 1] + insSize[addr[i - 1]]
                 ELSE SymMemSize
    IN  [i \in 1 .. 2 * n + 1 |-> addr[i]]

(* Mutant of LabelOf: no look at the address of the line.                  *)
MutLabelOf(defs, addr) == {s \in defs : \A t \in defs : symAddr[s] <= symAddr[t]}

(* The label in front of the line at addr.  Of the symbols whose turn has  *)
(* not come, which sym_defs holds by address, only the first is looked at. *)
LabelOf(defs, addr) ==
    {s \in defs : symAddr[s] = addr /\ \A t \in defs : symAddr[s] <= symAddr[t]}

(* The labels of the listing.  A symbol has its turn only when a line      *)
(* starts at its address, so one between two lines hides those after it.   *)
Labels(lines, syms) ==
    LET defs[i \in 0 .. Len(lines)] ==
            IF i = 0 THEN syms ELSE defs[i - 1] \ LabelOf(defs[i - 1], lines[i])
    IN  syms \ defs[Len(lines)]

Idle     == listing = NoListing /\ asked = Nothing
NoOutput == listing' = NoListing /\ UNCHANGED insSize

(* The code is disassembled, which throws outside the memory, then its     *)
(* symbols are asked for.                                                  *)
cmd_code(point, n) ==
    LET lines == code_addrs(point, n) IN
    /\ Idle
    /\ \/ /\ ~(Range(lines) \subseteq MemAddr) /\ ~hung
          /\ NoResult /\ NoOutput
          /\ UNCHANGED <<cacheVars, symAddr, hung>>
       \/ /\ Range(lines) \subseteq MemAddr
          /\ get_symbols(Head(lines), Last(lines) - Head(lines) + 1)
          /\ listing' = IF asked' = Nothing THEN NoListing
                        ELSE [point |-> point, n |-> n, lines |-> lines,
                              labels |-> Labels(lines, found')]
          /\ UNCHANGED insSize

(* Last, the symbols that the text refers to, if any, are asked for by     *)
(* their ids.  The listing is shown, or an error if the VM throws.         *)
ResolveRefs ==
    /\ listing # NoListing
    /\ \/ \E s \in Syms : /\ LoadSymbols(<<s>>)
                         /\ lost' = lost \ {s}
                         /\ UNCHANGED <<ranges, marked>>
       \/ UNCHANGED cacheVars
    /\ NoResult /\ NoOutput
    /\ UNCHANGED <<symAddr, hung>>

(* state, and bt for each frame: the name of the function that starts at   *)
(* the frame's caller_start_addr.                                          *)
cmd_state(start) == Idle /\ get_symbols(start, 1) /\ NoOutput

cmd_psym(s) == Idle /\ get_symbol_infos(s) /\ NoOutput

(* The other commands print what they got, and the next one may come.      *)
Shows ==
    /\ listing = NoListing /\ asked # Nothing
    /\ NoResult /\ NoOutput
    /\ UNCHANGED <<cacheVars, symAddr, hung>>

(* Calls of the Debugger that no command makes.                            *)
OtherCall ==
    /\ Idle
    /\ \/ \E addr \in MemAddr, size \in 2 .. SymMemSize : get_symbols(addr, size)
       \/ \E addr \in MemAddr : get_symbol_at(addr)
    /\ NoOutput

(* The loop of the C API goes round and round.                             *)
Spin == hung /\ UNCHANGED listVars

Init == SymInit /\ insSize \in Layouts /\ listing = NoListing

Next ==
    \/ \E point \in MemAddr, n \in Lines : cmd_code(point, n)
    \/ \E start \in MemAddr : cmd_state(start)
    \/ \E s \in Syms : cmd_psym(s)
    \/ ResolveRefs \/ Shows \/ OtherCall \/ Spin

Spec == Init /\ [][Next]_listVars

-----------------------------------------------------------------------------
(* Properties.                                                             *)

(* A label is missing in the listing, for a symbol that is known and       *)
(* starts a line, only if a symbol before it starts no line: from there on *)
(* no label is printed.  A label that is shown is one of a line            *)
(* (simple-cli-client.cc:589-638).                                         *)
LabelsComplete ==
    LET lines == Range(listing.lines)
        shown == {symAddr[s] : s \in listing.labels}
    IN  /\ shown \subseteq lines
        /\ \A s \in Syms \ lost :
              symAddr[s] \in lines \ shown =>
                 \E t \in found : symAddr[t] \notin lines /\ symAddr[t] < symAddr[s]
=============================================================================
