---------------------------- MODULE SymbolCache ----------------------------
(***************************************************************************)
(* The symbols a Debugger knows: the maps _map_syms, _syms_pos and         *)
(* _syms_ranges of src/server/debugger.cc.  Symbols are loaded from the VM *)
(* by whole windows of addresses, and an address whose window was loaded   *)
(* is never asked for again, so that a symbol missed once is missed for    *)
(* the rest of the session.                                                *)
(*                                                                         *)
(* The VM's symbol table is chosen once, in the initial state; several     *)
(* symbols may have one address.  The VM may throw whenever it is asked.   *)
(* It lists symbols through the C API, at most ListCap at a time; a VM of  *)
(* the C++ API has no such limit.                                          *)
(***************************************************************************)
EXTENDS RangeMap, FiniteSets

CONSTANTS
    Syms,           \* symbol ids of the VM
    SymMemSize,     \* VMInfos::memory_size
    LoadSize,       \* SYM_LOAD_SIZE: the window that is loaded at least
    ListCap         \* ODB_VM_API_SYMS_LIST_CAP

ASSUME SymbolCacheAssumption ==
    /\ IsFiniteSet(Syms)
    /\ SymMemSize \in Nat \ {0}
    /\ LoadSize \in Nat \ {0}
    /\ ListCap \in Nat \ {0}

VARIABLES
    symAddr,  \* the VM's table: SymbolInfos::addr of each symbol
    ranges,   \* _syms_ranges: 1 for the addresses that were loaded
    loaded,   \* domain of _map_syms
    symsPos,  \* _syms_pos: address |-> symbol, one symbol per address
    asked,    \* the range [addr, addr + size[ of the last call that listed
    found,    \* symbols, and its result
    marked,   \* history: the addresses that were marked as loaded
    lost,     \* history: symbols not loaded because the VM threw
    hung      \* does the loop of the C API's get_symbols spin?

cacheVars == <<ranges, loaded, symsPos, marked, lost>>
symVars == <<cacheVars, symAddr, asked, found, hung>>

MemAddr == 0 .. SymMemSize - 1
MaxAddr == SymMemSize - 1

(* Stand-in for a last call that listed nothing.                           *)
Nothing == [addr |-> 0, size |-> 0]

InRange(addr, rg) == rg.addr <= addr /\ addr < rg.addr + rg.size

-----------------------------------------------------------------------------
(* _load_symbol for a sequence of ids, of which those in _map_syms are     *)
(* skipped.  emplace keeps what a map has, so that an address keeps its    *)
(* symbol, and a new address has the first one of its symbols.             *)
NewIds(ids) == {i \in DOMAIN ids : ids[i] \notin loaded}

FirstAt(ids, addr) == ids[Min({i \in NewIds(ids) : symAddr[ids[i]] = addr})]

LoadSymbols(ids) ==
    /\ loaded' = loaded \cup Range(ids)
    /\ symsPos' = [a \in DOMAIN symsPos \cup {symAddr[ids[i]] : i \in NewIds(ids)} |->
                     IF a \in DOMAIN symsPos THEN symsPos[a] ELSE FirstAt(ids, a)]

(* Mutant of Window: the first address after a loaded range is skipped.    *)
MutWindowSkips(addr, size) ==
    LET want == IF size < LoadSize THEN LoadSize ELSE size
        last == IF addr + want - 1 < MaxAddr THEN addr + want - 1 ELSE MaxAddr
        lowRange  == range_of(ranges, addr, MaxAddr)
    IN  [low  |-> IF lowRange.val = 1 THEN lowRange.high + 2 ELSE addr,
         next |-> last + 1]

(* What _preload_symbols asks the VM for: the window of at least LoadSize  *)
(* addresses, cut to the memory, less what is loaded at its two ends.      *)
Window(addr, size) ==
    LET want == IF size < LoadSize THEN LoadSize ELSE size
        last == IF addr + want - 1 < MaxAddr THEN addr + want - 1 ELSE MaxAddr
        lowRange  == range_of(ranges, addr, MaxAddr)
        highRange == range_of(ranges, last, MaxAddr)
    IN  [low  |-> IF lowRange.val = 1 THEN lowRange.high + 1 ELSE addr,
         next |-> IF highRange.val = 1 THEN highRange.low ELSE last + 1]

At(addrs) == {s \in Syms : symAddr[s] \in addrs}

(* The callback of the C API: how many of the addresses from addr on it    *)
(* visits before it has no room for the symbols of the next one            *)
(* (vm-api.h:99-105).                                                      *)
ActSize(addr, size) ==
    Max({n \in 0 .. size : Cardinality(At(addr .. addr + n - 1)) <= ListCap})

(* Mutant of Advance: the loop advances by the symbols that it got.        *)
MutAdvance(addr, size) == Cardinality(At(addr .. addr + ActSize(addr, size) - 1))

(* How far one call of the callback takes the wrapper's loop.              *)
Advance(addr, size) == ActSize(addr, size)

(* The loop of the wrapper, over the addresses left: the symbols it        *)
(* gathers; without progress it never ends.                                *)
c_get_symbols(win) ==
    LET loop[addr \in win.low .. win.next] ==
            LET size == win.next - addr
                step == Advance(addr, size)
                rest == loop[IF step < size THEN addr + step ELSE win.next]
            IN  IF size = 0 THEN [hangs |-> FALSE, syms |-> {}]
                ELSE IF step = 0 THEN [hangs |-> TRUE, syms |-> {}]
                ELSE [hangs |-> rest.hangs,
                      syms  |-> rest.syms \cup At(addr .. addr + ActSize(addr, size) - 1)]
    IN  loop[win.low]

(* The order of the symbols of an address is the VM's own.                 *)
InWindow(win)  == c_get_symbols(win).syms
VMSymbols(win) == SetToSeqs(InWindow(win))

IsEmpty(win) == win.low >= win.next

(* Mutant of MarkLoaded: the address after the window is marked too.       *)
MutMarkLoaded(win) ==
    /\ ranges' = set(ranges, win.low,
                     IF win.next < MaxAddr THEN win.next ELSE MaxAddr, 1, MaxAddr)
    /\ marked' = marked \cup {a \in MemAddr : a \in win.low .. win.next}

MarkLoaded(win) ==
    /\ ranges' = set(ranges, win.low, win.next - 1, 1, MaxAddr)
    /\ marked' = marked \cup (win.low .. win.next - 1)

preload_symbols(addr, size) ==
    LET win == Window(addr, size) IN
    IF IsEmpty(win)
    THEN UNCHANGED <<ranges, marked, loaded, symsPos, lost>>
    ELSE /\ MarkLoaded(win)
         /\ ~c_get_symbols(win).hangs
         /\ \E ids \in VMSymbols(win) : LoadSymbols(ids)
         /\ lost' = lost \ loaded'

(* The VM may refuse to list the symbols.  The window is marked as loaded  *)
(* before they are: if the VM throws at one, the rest is not loaded.       *)
preload_symbols_fails(addr, size) ==
    LET win == Window(addr, size) IN
    /\ ~IsEmpty(win)
    /\ \/ UNCHANGED cacheVars
       \/ /\ ~c_get_symbols(win).hangs
          /\ MarkLoaded(win)
          /\ \E ids \in VMSymbols(win) :
               \E n \in {i \in DOMAIN ids : ids[i] \notin loaded} :
                   LoadSymbols(SubSeq(ids, 1, n - 1))
          /\ lost' = (lost \cup InWindow(win)) \ loaded'

preload_symbols_hangs(addr, size) ==
    LET win == Window(addr, size) IN
    /\ ~IsEmpty(win) /\ c_get_symbols(win).hangs
    /\ hung' = TRUE
    /\ UNCHANGED cacheVars

-----------------------------------------------------------------------------
(* Operations.                                                             *)

SymInit ==
    /\ symAddr \in [Syms -> MemAddr]
    /\ ranges = NewMap(0) /\ marked = {}
    /\ loaded = {} /\ lost = {} /\ hung = FALSE
    /\ symsPos = <<>>
    /\ asked = Nothing /\ found = {}

(* The symbols of [addr, addr + size[ in _syms_pos.                        *)
Listed(pos, rg) == {pos[a] : a \in {b \in DOMAIN pos : InRange(b, rg)}}

Returns(rg) == asked' = rg /\ found' = Listed(symsPos', rg) /\ UNCHANGED hung
NoResult    == asked' = Nothing /\ found' = {}

get_symbols(addr, size) ==
    /\ ~hung
    /\ \/ preload_symbols(addr, size) /\ Returns([addr |-> addr, size |-> size])
       \/ preload_symbols_fails(addr, size) /\ NoResult /\ UNCHANGED hung
       \/ preload_symbols_hangs(addr, size) /\ NoResult
    /\ UNCHANGED symAddr

(* The window is centred around the address.                               *)
Centred(addr) == IF addr < LoadSize \div 2 THEN 0 ELSE addr - LoadSize \div 2

get_symbol_at(addr) ==
    /\ ~hung
    /\ \/ preload_symbols(Centred(addr), LoadSize) /\ Returns([addr |-> addr, size |-> 1])
       \/ /\ preload_symbols_fails(Centred(addr), LoadSize)
          /\ NoResult /\ UNCHANGED hung
       \/ preload_symbols_hangs(Centred(addr), LoadSize) /\ NoResult
    /\ UNCHANGED symAddr

(* get_symbol_infos(id) and find_sym_id(name): one symbol from outside any *)
(* loaded window.                                                          *)
get_symbol_infos(s) ==
    /\ ~hung
    /\ LoadSymbols(<<s>>)
    /\ lost' = lost \ {s}
    /\ NoResult
    /\ UNCHANGED <<symAddr, ranges, marked, hung>>

-----------------------------------------------------------------------------
(* Properties.                                                             *)

(* The loop of the C API's get_symbols ends whatever the windows and the   *)
(* symbols in them, empty and exactly full lists included                  *)
(* (server_capi/vm-api.cc:113-131), unless more symbols share one address  *)
(* than a list can hold: then every round is the same as the one before.   *)
OnlyCrowdedAddressHangs ==
    hung => \E a \in MemAddr : Cardinality(At({a})) > ListCap

(* What get_symbols lists of a range, whatever windows were loaded before, *)
(* in whatever order, and whatever failed: symbols of the range only, and  *)
(* exactly one for every address of it that has symbols, unless the VM     *)
(* threw when they were to be loaded (_syms_pos, debugger.cc:287-296 and   *)
(* 441).  So a symbol that shares its address with no other is listed.     *)
(* get_symbol_at is the same question for one address.  This is less than  *)
(* debugger.hh:122 says: see AllSymbolsListed.                             *)
GetSymbolsOnePerAddress ==
    /\ \A s \in found : InRange(symAddr[s], asked)
    /\ \A s, t \in found : symAddr[s] = symAddr[t] => s = t
    /\ \A s \in Syms \ lost : InRange(symAddr[s], asked) =>
          \E t \in found : symAddr[t] = symAddr[s]

(* debugger.hh:122, of get_symbols: "Returns all symbols defined in        *)
(* [`addr`, `addr` + `size`[".  It does not: of two symbols that share an  *)
(* address the one loaded second is never listed, since _syms_pos keeps    *)
(* one per address (debugger.cc:441).                                      *)
AllSymbolsListed ==
    \A s \in Syms \ lost : InRange(symAddr[s], asked) => s \in found

(* debugger.hh:215: "Make sure all symbols in [addr, addr + size[ are in   *)
(* _map_syms".  An address that will not be asked for again has its        *)
(* symbols loaded, but for those the VM threw at.                          *)
LoadedWindowsComplete ==
    \A s \in Syms : get(ranges, symAddr[s]) = 1 => s \in loaded \cup lost

(* The RangeMap is the set of loaded addresses, in maximal ranges: for     *)
(* every address range_of gives the whole block of loaded, or of missing,  *)
(* addresses around it (range-map.hh:55), which _preload_symbols relies on *)
(* to ask for nothing twice (debugger.cc:405-417).                         *)
RangesExact ==
    \A a \in MemAddr :
        LET rg == range_of(ranges, a, MaxAddr) IN
        /\ a \in rg.low .. rg.high /\ rg.high <= MaxAddr
        /\ \A b \in rg.low .. rg.high : (b \in marked) = (rg.val = 1)
        /\ rg.low > 0 => (rg.low - 1 \in marked) # (rg.val = 1)
        /\ rg.high < MaxAddr => (rg.high + 1 \in marked) # (rg.val = 1)
=============================================================================
