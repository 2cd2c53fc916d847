------------------------- MODULE SymbolCacheProofs -------------------------
(***************************************************************************)
(* Proofs about modules SymbolCache and CodeListing, for any memory, any   *)
(* size of windows and lists, and any table of symbols.                    *)
(***************************************************************************)
EXTENDS CodeListing, RangeMapProofs, FiniteSetTheorems

-----------------------------------------------------------------------------
(* The loaded ranges.                                                      *)

(* The RangeMap is a map of the memory that says which addresses are       *)
(* marked.                                                                 *)
RangesInv ==
    /\ IsMap(ranges, {0, 1}, MaxAddr) /\ Maximal(ranges)
    /\ marked \subseteq MemAddr
    /\ \A a \in MemAddr : a \in marked <=> get(ranges, a) = 1

(* What range_of tells _preload_symbols.                                   *)
LEMMA MarkedRange ==
    ASSUME RangesInv, NEW a \in MemAddr
    PROVE  LET rg == range_of(ranges, a, MaxAddr) IN
           /\ rg.low \in Nat /\ rg.high \in Nat /\ rg.val \in {0, 1}
           /\ rg.low <= a /\ a <= rg.high /\ rg.high <= MaxAddr
           /\ \A b \in rg.low .. rg.high : (b \in marked) = (rg.val = 1)
           /\ rg.low > 0 => (rg.low - 1 \in marked) # (rg.val = 1)
           /\ rg.high < MaxAddr => (rg.high + 1 \in marked) # (rg.val = 1)
<1> DEFINE rg == range_of(ranges, a, MaxAddr)
<1>1. MaxAddr \in Nat /\ MemAddr = 0 .. MaxAddr
    BY SymbolCacheAssumption DEF MaxAddr, MemAddr
<1>2. /\ rg.low \in Nat /\ rg.high \in Nat /\ rg.val = get(ranges, a)
      /\ rg.low <= a /\ a <= rg.high /\ rg.high <= MaxAddr
      /\ \A b \in rg.low .. rg.high : get(ranges, b) = rg.val
      /\ rg.low > 0 => get(ranges, rg.low - 1) # rg.val
      /\ rg.high < MaxAddr => get(ranges, rg.high + 1) # rg.val
    <2>1. IsRangeOf(ranges, a, MaxAddr, rg)
        BY <1>1, RangeOfIsExact DEF RangesInv
    <2> QED
        BY <2>1, Zenon DEF IsRangeOf
<1>3. \A b \in MemAddr : get(ranges, b) \in {0, 1}
    <2> TAKE b \in MemAddr
    <2>1. Covers(ranges, find_node(ranges, b), b)
        BY <1>1, FindNode DEF RangesInv
    <2> QED
        BY <1>1, <2>1, NodesOf DEF RangesInv, get, Covers
<1> HIDE DEF rg
<1>4. rg.val \in {0, 1}
    BY <1>2, <1>3
<1>5. \A b \in MemAddr : (b \in marked) = (get(ranges, b) = 1)
    BY DEF RangesInv
<1>6. ASSUME NEW b \in rg.low .. rg.high
      PROVE  (b \in marked) = (rg.val = 1)
    BY <1>1, <1>2, <1>5
<1>7. ASSUME rg.low > 0
      PROVE  (rg.low - 1 \in marked) # (rg.val = 1)
    <2>1. rg.low - 1 \in MemAddr
        BY <1>1, <1>2, <1>7
    <2> QED
        BY <1>2, <1>3, <1>4, <1>5, <1>7, <2>1
<1>8. ASSUME rg.high < MaxAddr
      PROVE  (rg.high + 1 \in marked) # (rg.val = 1)
    <2>1. rg.high + 1 \in MemAddr
        BY <1>1, <1>2, <1>8
    <2> QED
        BY <1>2, <1>3, <1>4, <1>5, <1>8, <2>1
<1> QED
    BY <1>2, <1>4, <1>6, <1>7, <1>8 DEF rg

(* So the ranges are exact.                                                *)
LEMMA RangesAreExact ==
    ASSUME RangesInv
    PROVE  RangesExact
<1> SUFFICES ASSUME NEW a \in MemAddr
             PROVE  LET rg == range_of(ranges, a, MaxAddr) IN
                    /\ a \in rg.low .. rg.high /\ rg.high <= MaxAddr
                    /\ \A b \in rg.low .. rg.high : (b \in marked) = (rg.val = 1)
                    /\ rg.low > 0 => (rg.low - 1 \in marked) # (rg.val = 1)
                    /\ rg.high < MaxAddr => (rg.high + 1 \in marked) # (rg.val = 1)
    BY DEF RangesExact
<1> DEFINE rg == range_of(ranges, a, MaxAddr)
<1>1. /\ rg.low \in Nat /\ rg.high \in Nat
      /\ rg.low <= a /\ a <= rg.high /\ rg.high <= MaxAddr
      /\ \A b \in rg.low .. rg.high : (b \in marked) = (rg.val = 1)
      /\ rg.low > 0 => (rg.low - 1 \in marked) # (rg.val = 1)
      /\ rg.high < MaxAddr => (rg.high + 1 \in marked) # (rg.val = 1)
    BY MarkedRange
<1>2. a \in Nat
    BY SymbolCacheAssumption DEF MemAddr
<1> HIDE DEF rg
<1>3. a \in rg.low .. rg.high
    BY <1>1, <1>2
<1> QED
    BY <1>1, <1>3, Zenon DEF rg

-----------------------------------------------------------------------------
(* The window _preload_symbols computes: it lies inside the memory, and    *)
(* whatever of [addr, addr + size[ is outside of it is loaded already.     *)
IsWindow(addr, size, win) ==
    /\ win.low \in Nat /\ win.next \in Nat /\ win.next <= SymMemSize
    /\ \A a \in MemAddr \ marked :
          addr <= a /\ a < addr + size => win.low <= a /\ a < win.next

(* It is one for every address of the memory and every size, at both ends  *)
(* of the memory and of loaded ranges (debugger.cc:400-418).               *)
LEMMA WindowIsWindow ==
    ASSUME RangesInv, NEW addr \in MemAddr, NEW size \in Int
    PROVE  IsWindow(addr, size, Window(addr, size))
<1> DEFINE want == IF size < LoadSize THEN LoadSize ELSE size
           last == IF addr + want - 1 < MaxAddr THEN addr + want - 1 ELSE MaxAddr
           lowRange  == range_of(ranges, addr, MaxAddr)
           highRange == range_of(ranges, last, MaxAddr)
           low  == IF lowRange.val = 1 THEN lowRange.high + 1 ELSE addr
           next == IF highRange.val = 1 THEN highRange.low ELSE last + 1
<1>1. Window(addr, size).low = low /\ Window(addr, size).next = next
    BY DEF Window
<1>2. MaxAddr \in Nat /\ MemAddr = 0 .. MaxAddr /\ SymMemSize = MaxAddr + 1
    BY SymbolCacheAssumption DEF MaxAddr, MemAddr
<1>3. want \in Nat /\ want >= 1 /\ size <= want
    BY SymbolCacheAssumption
<1> HIDE DEF want
<1>4. /\ last \in MemAddr
      /\ \A a \in MemAddr : a < addr + size => a <= last
    BY <1>2, <1>3
<1> HIDE DEF last
<1>5. /\ lowRange.low \in Nat /\ lowRange.high \in Nat
      /\ lowRange.low <= addr /\ lowRange.high <= MaxAddr
      /\ \A b \in lowRange.low .. lowRange.high : (b \in marked) = (lowRange.val = 1)
    BY MarkedRange
<1>6. /\ highRange.low \in Nat /\ highRange.high \in Nat
      /\ highRange.low <= last /\ last <= highRange.high
      /\ \A b \in highRange.low .. highRange.high : (b \in marked) = (highRange.val = 1)
    BY <1>4, MarkedRange
<1> HIDE DEF lowRange, highRange
<1>7. low \in Nat /\ next \in Nat /\ next <= SymMemSize
    BY <1>2, <1>4, <1>5, <1>6
<1>8. ASSUME NEW a \in MemAddr \ marked, addr <= a, a < addr + size
      PROVE  low <= a /\ a < next
    <2>1. a \in Nat /\ a <= last /\ last \in Nat
        BY <1>2, <1>4, <1>8
    <2>2. low <= a
        <3>1. CASE lowRange.val = 1
            <4>1. a \notin lowRange.low .. lowRange.high
                BY <1>5, <1>8, <3>1
            <4> QED
                BY <1>2, <1>5, <1>8, <2>1, <3>1, <4>1
        <3>2. CASE lowRange.val # 1
            BY <1>8, <3>2
        <3> QED
            BY <3>1, <3>2
    <2>3. a < next
        <3>1. CASE highRange.val = 1
            <4>1. a \notin highRange.low .. highRange.high
                BY <1>6, <1>8, <3>1
            <4> QED
                BY <1>6, <2>1, <3>1, <4>1
        <3>2. CASE highRange.val # 1
            BY <2>1, <3>2
        <3> QED
            BY <3>1, <3>2
    <2> QED
        BY <2>2, <2>3
<1> QED
    BY <1>1, <1>7, <1>8 DEF IsWindow

(* Marking a window keeps the RangeMap in line with the marked addresses.  *)
LEMMA MarkKeepsRanges ==
    ASSUME RangesInv, NEW win, win.low \in Nat, win.next \in Nat,
           win.next <= SymMemSize, ~IsEmpty(win), MarkLoaded(win)
    PROVE  RangesInv'
<1> DEFINE low == win.low
           high == win.next - 1
<1>1. MaxAddr \in Nat /\ MemAddr = 0 .. MaxAddr /\ SymMemSize = MaxAddr + 1
    BY SymbolCacheAssumption DEF MaxAddr, MemAddr
<1>2. low \in Nat /\ high \in Nat /\ low <= high /\ high <= MaxAddr
    BY <1>1 DEF IsEmpty
<1>3. ranges' = set(ranges, low, high, 1, MaxAddr) /\ marked' = marked \cup (low .. high)
    BY DEF MarkLoaded
<1> HIDE DEF low, high
<1>4. /\ IsMap(ranges', {0, 1}, MaxAddr) /\ Maximal(ranges')
      /\ IsSet(ranges, low, high, 1, MaxAddr, ranges')
    BY <1>1, <1>2, <1>3, SetIsExact DEF RangesInv
<1>5. ASSUME NEW a \in MemAddr
      PROVE  a \in marked' <=> get(ranges', a) = 1
    BY <1>1, <1>3, <1>4 DEF RangesInv, IsSet
<1>6. marked' \subseteq MemAddr
    BY <1>1, <1>2, <1>3 DEF RangesInv
<1> QED
    BY <1>4, <1>5, <1>6 DEF RangesInv, MaxAddr, MemAddr

-----------------------------------------------------------------------------
(* The loop of the C API's get_symbols.                                    *)

(* The symbols at some addresses are finitely many.                        *)
LEMMA SymbolsFinite ==
    ASSUME NEW addrs
    PROVE  IsFiniteSet(At(addrs)) /\ Cardinality(At(addrs)) \in Nat /\ At(addrs) \subseteq Syms
<1>1. At(addrs) \in SUBSET Syms
    BY DEF At
<1>2. IsFiniteSet(At(addrs))
    BY <1>1, FS_Subset, SymbolCacheAssumption
<1> QED
    BY <1>1, <1>2, FS_CardinalityType

(* One call of the callback gets as far as it can: some part of what is    *)
(* left, and none only if the first address alone has too many symbols.    *)
LEMMA CallbackAdvances ==
    ASSUME NEW addr \in Nat, NEW size \in Nat
    PROVE  /\ ActSize(addr, size) \in 0 .. size
           /\ size > 0 /\ ActSize(addr, size) = 0 => Cardinality(At({addr})) > ListCap
<1> DEFINE Fits == {n \in 0 .. size : Cardinality(At(addr .. addr + n - 1)) <= ListCap}
<1>1. 0 \in Fits
    <2>1. addr .. addr + 0 - 1 = {}
        OBVIOUS
    <2>2. At({}) = {}
        BY DEF At
    <2>3. Cardinality(At(addr .. addr + 0 - 1)) = 0
        BY <2>1, <2>2, FS_EmptySet
    <2>4. Cardinality(At(addr .. addr + 0 - 1)) <= ListCap /\ 0 \in 0 .. size
        BY <2>3, SymbolCacheAssumption
    <2> QED
        BY <2>4
<1>2. \E x \in Fits : \A y \in Fits : x >= y
    <2>1. Fits \in SUBSET Nat /\ \A x \in Fits : x <= size
        OBVIOUS
    <2> HIDE DEF Fits
    <2> QED
        BY <1>1, <2>1, GreatestNumber
<1>3. ActSize(addr, size) = Max(Fits)
    BY DEF ActSize
<1>4. Max(Fits) \in Fits /\ \A y \in Fits : Max(Fits) >= y
    <2> HIDE DEF Fits
    <2> QED
        BY <1>2 DEF Max
<1>5. ASSUME size > 0, Max(Fits) = 0
      PROVE  Cardinality(At({addr})) > ListCap
    <2>1. 1 \notin Fits
        <3> HIDE DEF Fits
        <3> QED
            BY <1>4, <1>5
    <2>2. addr .. addr + 1 - 1 = {addr} /\ 1 \in 0 .. size
        BY <1>5
    <2>3. ~(Cardinality(At({addr})) <= ListCap)
        BY <2>1, <2>2
    <2> QED
        BY <2>3, SymbolsFinite, SymbolCacheAssumption
<1> QED
    BY <1>3, <1>4, <1>5

(* One turn of the loop, at addr, given what it does for the rest.         *)
Turn(next, loop, addr) ==
    LET size == next - addr
        step == Advance(addr, size)
        rest == loop[IF step < size THEN addr + step ELSE next]
    IN  IF size = 0 THEN [hangs |-> FALSE, syms |-> {}]
        ELSE IF step = 0 THEN [hangs |-> TRUE, syms |-> {}]
        ELSE [hangs |-> rest.hangs,
              syms  |-> rest.syms \cup At(addr .. addr + ActSize(addr, size) - 1)]

(* A turn only needs what the loop does for later addresses.               *)
LEMMA TurnLooksAhead ==
    ASSUME NEW next \in Nat, NEW addr \in 0 .. next, NEW f, NEW g,
           \A a \in addr + 1 .. next : f[a] = g[a]
    PROVE  Turn(next, f, addr) = Turn(next, g, addr)
<1> DEFINE size == next - addr
           step == Advance(addr, size)
           at   == IF step < size THEN addr + step ELSE next
<1>1. size \in Nat
    OBVIOUS
<1>2. step \in 0 .. size
    <2>1. addr \in Nat
        OBVIOUS
    <2> HIDE DEF size
    <2> QED
        BY <1>1, <2>1, CallbackAdvances DEF Advance
<1>3. size # 0 /\ step # 0 => at \in addr + 1 .. next
    BY <1>1, <1>2
<1>4. size # 0 /\ step # 0 => f[at] = g[at]
    BY <1>3
<1> HIDE DEF size, step, at
<1>5. CASE size = 0 \/ step = 0
    BY <1>5 DEF Turn, size, step
<1>6. CASE size # 0 /\ step # 0
    BY <1>4, <1>6, Zenon DEF Turn, size, step, at
<1> QED
    BY <1>5, <1>6

(* The loop, as a function of the address it is at.                        *)
IsLoop(low, next, loop) == loop = [addr \in low .. next |-> Turn(next, loop, addr)]

(* It is well defined: there is one for every window.                      *)
LEMMA LoopExists ==
    ASSUME NEW low \in Nat, NEW next \in Nat, low <= next
    PROVE  \E loop : IsLoop(low, next, loop)
<1> DEFINE Missing == {d \in 0 .. next : ~ \E loop : IsLoop(next - d, next, loop)}
<1>1. CASE next - low \notin Missing
    BY <1>1
<1>2. CASE next - low \in Missing
    <2>1. Missing \in SUBSET Nat
        OBVIOUS
    <2>2. PICK d \in Missing : \A k \in Missing : d <= k
        <3> HIDE DEF Missing
        <3> QED
            BY <1>2, <2>1, LeastNumber
    <2>3. d \in 0 .. next /\ ~ \E loop : IsLoop(next - d, next, loop)
        OBVIOUS
    <2>4. \E f : \A a \in next - d + 1 .. next : f[a] = Turn(next, f, a)
        <3>1. CASE d = 0
            BY <3>1
        <3>2. CASE d # 0
            <4>1. d - 1 \in 0 .. next /\ ~(d <= d - 1) /\ next - (d - 1) = next - d + 1
                BY <2>3, <3>2
            <4>2. d - 1 \notin Missing
                <5> HIDE DEF Missing
                <5> QED
                    BY <2>2, <4>1
            <4>3. PICK f : IsLoop(next - (d - 1), next, f)
                BY <4>1, <4>2
            <4>4. \A a \in next - d + 1 .. next : f[a] = Turn(next, f, a)
                BY <4>1, <4>3, Zenon DEF IsLoop
            <4> QED
                BY <4>4
        <3> QED
            BY <3>1, <3>2
    <2>5. PICK f : \A a \in next - d + 1 .. next : f[a] = Turn(next, f, a)
        BY <2>4
    <2> DEFINE b == next - d
               g == [a \in b .. next |-> IF a = b THEN Turn(next, f, b) ELSE f[a]]
               h == [a \in b .. next |-> Turn(next, g, a)]
    <2>6. b \in 0 .. next /\ b \in Int
        BY <2>3
    <2>7. \A a \in b + 1 .. next : g[a] = f[a]
        BY <2>6
    <2>8. g[b] = Turn(next, f, b)
        BY <2>6
    <2>9. DOMAIN g = b .. next /\ g = [a \in b .. next |-> g[a]]
        OBVIOUS
    <2> HIDE DEF g
    <2>10. ASSUME NEW a \in b .. next
           PROVE  g[a] = Turn(next, g, a)
        <3>1. a \in 0 .. next
            BY <2>6
        <3>2. \A c \in a + 1 .. next : f[c] = g[c]
            BY <2>6, <2>7
        <3>3. Turn(next, f, a) = Turn(next, g, a)
            BY <3>1, <3>2, TurnLooksAhead
        <3>4. CASE a = b
            BY <2>8, <3>3, <3>4
        <3>5. CASE a # b
            <4>1. a \in b + 1 .. next
                BY <2>6, <3>5
            <4> QED
                BY <2>5, <2>7, <3>3, <4>1
        <3> QED
            BY <3>4, <3>5
    <2>11. g = h
        BY <2>9, <2>10, Zenon
    <2>12. IsLoop(next - d, next, g)
        BY <2>11 DEF IsLoop
    <2> QED
        BY <2>3, <2>12
<1> QED
    BY <1>1, <1>2

(* What the wrapper's loop does from an address on.                        *)
Gathers(addr, next, res) ==
    /\ res.syms \subseteq Syms
    /\ ~res.hangs => res.syms = At(addr .. next - 1)
    /\ res.hangs => \E a \in addr .. next - 1 : Cardinality(At({a})) > ListCap

(* One turn keeps it up.                                                   *)
LEMMA TurnGathers ==
    ASSUME NEW next \in Nat, NEW addr \in 0 .. next, NEW loop,
           \A a \in addr + 1 .. next : Gathers(a, next, loop[a])
    PROVE  Gathers(addr, next, Turn(next, loop, addr))
<1> DEFINE size == next - addr
           step == Advance(addr, size)
           at   == IF step < size THEN addr + step ELSE next
           got  == At(addr .. addr + step - 1)
<1>1. size \in Nat /\ addr \in Nat
    OBVIOUS
<1>2. /\ step \in 0 .. size /\ step = ActSize(addr, size)
      /\ size > 0 /\ step = 0 => Cardinality(At({addr})) > ListCap
    <2> HIDE DEF size
    <2> QED
        BY <1>1, CallbackAdvances DEF Advance
<1>3. CASE size = 0
    <2>1. Turn(next, loop, addr) = [hangs |-> FALSE, syms |-> {}]
        BY <1>3 DEF Turn
    <2>2. addr .. next - 1 = {}
        BY <1>3
    <2>3. At({}) = {}
        BY DEF At
    <2> QED
        BY <2>1, <2>2, <2>3 DEF Gathers
<1>4. CASE size # 0 /\ step = 0
    <2>1. Turn(next, loop, addr) = [hangs |-> TRUE, syms |-> {}]
        BY <1>4 DEF Turn
    <2>2. addr \in addr .. next - 1 /\ size > 0
        BY <1>1, <1>4
    <2>3. Cardinality(At({addr})) > ListCap
        BY <1>2, <1>4, <2>2
    <2> QED
        BY <2>1, <2>2, <2>3 DEF Gathers
<1>5. CASE size # 0 /\ step # 0
    <2>1. at = addr + step /\ at \in addr + 1 .. next
        BY <1>1, <1>2, <1>5
    <2> DEFINE rest == loop[at]
               res  == [hangs |-> rest.hangs, syms |-> rest.syms \cup got]
    <2>2. Turn(next, loop, addr) = res
        <3>1. got = At(addr .. addr + ActSize(addr, size) - 1)
            BY <1>2
        <3> HIDE DEF got
        <3> QED
            BY <1>5, <3>1 DEF Turn
    <2>3. Gathers(at, next, rest)
        BY <2>1
    <2>4. res.hangs = rest.hangs /\ res.syms = rest.syms \cup got
        OBVIOUS
    <2> HIDE DEF rest, res
    <2>5. got \subseteq Syms
        BY DEF At
    <2>6. At(at .. next - 1) \cup got = At(addr .. next - 1)
        <3>1. (at .. next - 1) \cup (addr .. addr + step - 1) = addr .. next - 1
            BY <1>1, <1>2, <2>1
        <3> QED
            BY <3>1 DEF At
    <2>7. at .. next - 1 \subseteq addr .. next - 1
        BY <1>1, <1>2, <2>1
    <2> HIDE DEF at, got
    <2>8. Gathers(addr, next, res)
        <3>1. res.syms \subseteq Syms
            BY <2>3, <2>4, <2>5 DEF Gathers
        <3>2. ~res.hangs => res.syms = At(addr .. next - 1)
            BY <2>3, <2>4, <2>6 DEF Gathers
        <3>3. res.hangs => \E a \in addr .. next - 1 : Cardinality(At({a})) > ListCap
            BY <2>3, <2>4, <2>7 DEF Gathers
        <3> QED
            BY <3>1, <3>2, <3>3 DEF Gathers
    <2> QED
        BY <2>2, <2>8
<1> QED
    BY <1>3, <1>4, <1>5

(* The wrapper gets all symbols of its window, whatever the windows, the   *)
(* lists and the symbols, or does not end because one address has more     *)
(* symbols than fit into a list (server_capi/vm-api.cc:113-131).           *)
THEOREM GetSymbolsGathers ==
    ASSUME NEW win, win.low \in Nat, win.next \in Nat, win.low <= win.next
    PROVE  Gathers(win.low, win.next, c_get_symbols(win))
<1> DEFINE low == win.low
           next == win.next
           loop == CHOOSE l : IsLoop(low, next, l)
<1>1. c_get_symbols(win) = loop[low]
    BY DEF c_get_symbols, IsLoop, Turn
<1>2. low \in Nat /\ next \in Nat /\ low <= next
    OBVIOUS
<1> HIDE DEF low, next
<1>3. IsLoop(low, next, loop)
    BY <1>2, LoopExists
<1> HIDE DEF loop
<1>4. \A a \in low .. next : loop[a] = Turn(next, loop, a)
    BY <1>3, Zenon DEF IsLoop
<1> DEFINE P(a) == Gathers(a, next, loop[a])
           Bad == {d \in 0 .. next - low : ~P(next - d)}
<1>5. Bad = {}
    <2> SUFFICES ASSUME Bad # {}
                 PROVE  FALSE
        OBVIOUS
    <2>1. Bad \in SUBSET Nat
        BY <1>2
    <2>2. PICK d \in Bad : \A k \in Bad : d <= k
        <3> HIDE DEF Bad
        <3> QED
            BY <2>1, LeastNumber
    <2>3. d \in 0 .. next - low /\ ~P(next - d)
        OBVIOUS
    <2> DEFINE addr == next - d
    <2>4. addr \in 0 .. next /\ addr \in low .. next
        BY <1>2, <2>3
    <2>5. ASSUME NEW a \in addr + 1 .. next
          PROVE  P(a)
        <3>1. next - a \in 0 .. next - low /\ ~(d <= next - a) /\ next - (next - a) = a
            BY <1>2, <2>3, <2>4
        <3>2. next - a \notin Bad
            <4> HIDE DEF Bad
            <4> QED
                BY <2>2, <3>1
        <3> HIDE DEF P
        <3>3. P(next - (next - a))
            BY <3>1, <3>2
        <3> QED
            BY <3>1, <3>3
    <2> HIDE DEF addr
    <2>6. Gathers(addr, next, Turn(next, loop, addr))
        BY <1>2, <2>4, <2>5, TurnGathers
    <2>7. P(addr)
        BY <1>4, <2>4, <2>6
    <2> QED
        BY <2>3, <2>7 DEF addr
<1>6. P(low)
    <2>1. next - low \in 0 .. next - low /\ next - (next - low) = low
        BY <1>2
    <2>2. next - low \notin Bad
        <3> HIDE DEF Bad
        <3> QED
            BY <1>5
    <2> HIDE DEF P
    <2>3. P(next - (next - low))
        BY <2>1, <2>2
    <2> QED
        BY <2>1, <2>3
<1> QED
    BY <1>1, <1>6 DEF low, next

-----------------------------------------------------------------------------
(* The cache.                                                              *)

SymTypeInv ==
    /\ symAddr \in [Syms -> MemAddr]
    /\ loaded \subseteq Syms /\ lost \subseteq Syms

(* Every loaded symbol has an entry at its address, which may be that of   *)
(* another symbol there, and the entries are where their symbols are.      *)
PosInv ==
    /\ \A s \in loaded : symAddr[s] \in DOMAIN symsPos
    /\ \A a \in DOMAIN symsPos : symsPos[a] \in Syms /\ symAddr[symsPos[a]] = a

(* A marked address has its symbols loaded, or lost.                       *)
MarkedInv == \A s \in Syms : symAddr[s] \in marked => s \in loaded \cup lost

SymInv == SymTypeInv /\ RangesInv /\ PosInv /\ MarkedInv

(* _load_symbol for some ids keeps the entries right.                      *)
LEMMA LoadKeepsPos ==
    ASSUME SymTypeInv, PosInv, NEW ids, DOMAIN ids \subseteq Nat, Range(ids) \subseteq Syms,
           LoadSymbols(ids), UNCHANGED symAddr
    PROVE  PosInv' /\ loaded' = loaded \cup Range(ids)
<1> DEFINE fresh == {symAddr[ids[i]] : i \in NewIds(ids)}
<1>1. /\ loaded' = loaded \cup Range(ids)
      /\ symsPos' = [a \in DOMAIN symsPos \cup fresh |->
                       IF a \in DOMAIN symsPos THEN symsPos[a] ELSE FirstAt(ids, a)]
    BY DEF LoadSymbols
<1>2. NewIds(ids) \subseteq DOMAIN ids /\ \A i \in DOMAIN ids : ids[i] \in Syms
    BY DEF NewIds, Range
<1>3. ASSUME NEW a \in fresh
      PROVE  FirstAt(ids, a) \in Syms /\ symAddr[FirstAt(ids, a)] = a
    <2> DEFINE T == {i \in NewIds(ids) : symAddr[ids[i]] = a}
    <2>1. T \in SUBSET Nat /\ T # {}
        BY <1>2
    <2>2. \E x \in T : \A y \in T : x <= y
        <3> HIDE DEF T
        <3> QED
            BY <2>1, LeastNumber
    <2>3. Min(T) \in T
        <3> HIDE DEF T
        <3> QED
            BY <2>2 DEF Min
    <2>4. FirstAt(ids, a) = ids[Min(T)]
        BY DEF FirstAt
    <2>5. Min(T) \in DOMAIN ids /\ symAddr[ids[Min(T)]] = a
        BY <1>2, <2>3
    <2> QED
        BY <1>2, <2>4, <2>5
<1> HIDE DEF fresh
<1>4. DOMAIN symsPos' = DOMAIN symsPos \cup fresh
    BY <1>1
<1>5. ASSUME NEW s \in loaded'
      PROVE  symAddr[s] \in DOMAIN symsPos'
    <2>1. CASE s \in loaded
        BY <1>4, <2>1 DEF PosInv
    <2>2. CASE s \notin loaded
        <3>1. PICK i \in DOMAIN ids : s = ids[i]
            BY <1>1, <1>5, <2>2 DEF Range
        <3>2. i \in NewIds(ids)
            BY <2>2, <3>1 DEF NewIds
        <3> QED
            BY <1>4, <3>1, <3>2 DEF fresh
    <2> QED
        BY <2>1, <2>2
<1>6. ASSUME NEW a \in DOMAIN symsPos'
      PROVE  symsPos'[a] \in Syms /\ symAddr[symsPos'[a]] = a
    <2>1. CASE a \in DOMAIN symsPos
        <3>1. symsPos'[a] = symsPos[a]
            BY <1>1, <2>1
        <3> QED
            BY <2>1, <3>1 DEF PosInv
    <2>2. CASE a \notin DOMAIN symsPos
        <3>1. symsPos'[a] = FirstAt(ids, a) /\ a \in fresh
            BY <1>1, <1>4, <1>6, <2>2
        <3> QED
            BY <1>3, <3>1
    <2> QED
        BY <2>1, <2>2
<1> QED
    BY <1>1, <1>5, <1>6 DEF PosInv

(* The VM lists the symbols of a set in some order: all of them.           *)
LEMMA ListsAll ==
    ASSUME NEW S \in SUBSET Syms, NEW ids \in SetToSeqs(S)
    PROVE  ids \in Seq(S) /\ DOMAIN ids \subseteq Nat /\ Range(ids) = S
<1> DEFINE D == 1 .. Cardinality(S)
<1>1. IsFiniteSet(S) /\ Cardinality(S) \in Nat
    BY FS_Subset, FS_CardinalityType, SymbolCacheAssumption
<1>2. ids \in [D -> S] /\ \A i, j \in D : i # j => ids[i] # ids[j]
    BY DEF SetToSeqs
<1>3. ids \in Seq(S) /\ DOMAIN ids = D /\ D \subseteq Nat
    BY <1>1, <1>2
<1>4. Cardinality(D) = Cardinality(S)
    <2>1. 1 \in Int /\ Cardinality(S) \in Int
        BY <1>1
    <2>2. Cardinality(D) = IF 1 > Cardinality(S) THEN 0 ELSE Cardinality(S) - 1 + 1
        BY <2>1, FS_Interval
    <2> HIDE DEF D
    <2> QED
        BY <1>1, <2>2
<1> HIDE DEF D
<1>5. ids \in Injection(D, S)
    BY <1>2 DEF Injection, IsInjective
<1>6. ids \in Surjection(D, S)
    BY <1>1, <1>4, <1>5, FS_Injection
<1>7. Range(ids) = S
    BY <1>2, <1>6 DEF Surjection, Range
<1> QED
    BY <1>3, <1>7

(* What _preload_symbols asks for when there is something to ask for.      *)
LEMMA PreloadWindow ==
    ASSUME SymInv, NEW addr \in MemAddr, NEW size \in Int, NEW win,
           win = Window(addr, size), ~IsEmpty(win)
    PROVE  /\ IsWindow(addr, size, win)
           /\ win.low \in Nat /\ win.next \in Nat /\ win.next <= SymMemSize
           /\ InWindow(win) \subseteq Syms
           /\ ~c_get_symbols(win).hangs => InWindow(win) = At(win.low .. win.next - 1)
           /\ c_get_symbols(win).hangs => \E a \in MemAddr : Cardinality(At({a})) > ListCap
<1>1. IsWindow(addr, size, win)
    BY WindowIsWindow DEF SymInv
<1>2. win.low \in Nat /\ win.next \in Nat /\ win.low <= win.next /\ win.next <= SymMemSize
    BY <1>1 DEF IsWindow, IsEmpty
<1>3. Gathers(win.low, win.next, c_get_symbols(win))
    BY <1>2, GetSymbolsGathers
<1>4. win.low .. win.next - 1 \subseteq MemAddr
    BY <1>2, SymbolCacheAssumption DEF MemAddr
<1> QED
    BY <1>1, <1>2, <1>3, <1>4 DEF Gathers, InWindow

(* Symbols are loaded for a window: whatever was marked is loaded or lost. *)
LEMMA MarkAndLoad ==
    ASSUME SymInv, NEW win, win.low \in Nat, win.next \in Nat, win.next <= SymMemSize,
           ~IsEmpty(win), MarkLoaded(win), UNCHANGED symAddr,
           NEW ids, DOMAIN ids \subseteq Nat, Range(ids) \subseteq Syms, LoadSymbols(ids),
           lost' \subseteq Syms, lost \ loaded' \subseteq lost',
           At(win.low .. win.next - 1) \subseteq loaded' \cup lost'
    PROVE  SymInv'
<1>1. RangesInv'
    BY MarkKeepsRanges DEF SymInv
<1>2. PosInv' /\ loaded' = loaded \cup Range(ids)
    BY LoadKeepsPos DEF SymInv
<1>3. SymTypeInv'
    <2>1. symAddr' \in [Syms -> MemAddr] /\ loaded' \subseteq Syms
        BY <1>2 DEF SymInv, SymTypeInv
    <2> QED
        BY <2>1 DEF SymTypeInv, MemAddr
<1>4. ASSUME NEW s \in Syms, symAddr[s] \in marked'
      PROVE  s \in loaded' \cup lost'
    <2>1. CASE symAddr[s] \in marked
        BY <1>2, <2>1 DEF SymInv, MarkedInv
    <2>2. CASE symAddr[s] \notin marked
        <3>1. s \in At(win.low .. win.next - 1)
            BY <1>4, <2>2 DEF MarkLoaded, At
        <3> QED
            BY <3>1
    <2> QED
        BY <2>1, <2>2
<1> QED
    BY <1>1, <1>2, <1>3, <1>4 DEF SymInv, MarkedInv

(* A step that leaves the cache alone.                                     *)
LEMMA UnchangedKeepsSymInv ==
    ASSUME SymInv, UNCHANGED <<cacheVars, symAddr>>
    PROVE  SymInv'
BY DEF SymInv, SymTypeInv, RangesInv, PosInv, MarkedInv, cacheVars, MemAddr, MaxAddr,
       IsMap, Maximal, get, find_node

(* The addresses of a question are all marked, once it was answered.       *)
AllMarked(addr, size, S) ==
    \A s \in Syms : addr <= symAddr[s] /\ symAddr[s] < addr + size => symAddr[s] \in S

(* _preload_symbols, when the VM does not throw (debugger.cc:400-425).     *)
LEMMA PreloadKeepsSymInv ==
    ASSUME SymInv, NEW addr \in MemAddr, NEW size \in Int,
           preload_symbols(addr, size), UNCHANGED symAddr
    PROVE  SymInv' /\ AllMarked(addr, size, marked')
<1> DEFINE win == Window(addr, size)
<1>1. IsWindow(addr, size, win)
    BY WindowIsWindow DEF SymInv
<1>2. \A s \in Syms : symAddr[s] \in MemAddr /\ symAddr[s] \in Nat
    BY SymbolCacheAssumption DEF SymInv, SymTypeInv, MemAddr
<1>3. addr \in Nat
    BY SymbolCacheAssumption DEF MemAddr
<1>4. CASE IsEmpty(win)
    <2>1. UNCHANGED <<cacheVars, symAddr>>
        BY <1>4 DEF preload_symbols, cacheVars
    <2>2. SymInv'
        BY <2>1, UnchangedKeepsSymInv
    <2>3. ASSUME NEW s \in Syms, addr <= symAddr[s], symAddr[s] < addr + size
          PROVE  symAddr[s] \in marked
        <3> HIDE DEF win
        <3> QED
            BY <1>1, <1>2, <1>4, <2>3 DEF IsWindow, IsEmpty
    <2> QED
        BY <2>1, <2>2, <2>3 DEF AllMarked, cacheVars
<1>5. CASE ~IsEmpty(win)
    <2>1. /\ MarkLoaded(win) /\ ~c_get_symbols(win).hangs
          /\ \E ids \in VMSymbols(win) : LoadSymbols(ids)
          /\ lost' = lost \ loaded'
        BY <1>5 DEF preload_symbols
    <2> HIDE DEF win
    <2>2. /\ win.low \in Nat /\ win.next \in Nat /\ win.next <= SymMemSize
          /\ InWindow(win) \subseteq Syms /\ InWindow(win) = At(win.low .. win.next - 1)
        BY <1>5, <2>1, PreloadWindow DEF win
    <2>3. PICK ids \in VMSymbols(win) : LoadSymbols(ids)
        BY <2>1
    <2>4. DOMAIN ids \subseteq Nat /\ Range(ids) = InWindow(win)
        BY <2>2, ListsAll DEF VMSymbols
    <2>5. loaded' = loaded \cup InWindow(win)
        BY <2>3, <2>4 DEF LoadSymbols
    <2>6. lost' \subseteq Syms
        BY <2>1 DEF SymInv, SymTypeInv
    <2>7. SymInv'
        BY <1>5, <2>1, <2>2, <2>3, <2>4, <2>5, <2>6, MarkAndLoad
    <2>8. ASSUME NEW s \in Syms, addr <= symAddr[s], symAddr[s] < addr + size
          PROVE  symAddr[s] \in marked'
        <3>1. symAddr[s] \in marked \/ symAddr[s] \in win.low .. win.next - 1
            BY <1>1, <1>2, <2>2, <2>8 DEF IsWindow
        <3> QED
            BY <2>1, <3>1 DEF MarkLoaded
    <2> QED
        BY <2>7, <2>8 DEF AllMarked
<1> QED
    BY <1>4, <1>5

(* _preload_symbols, when the VM throws: before the window is marked, or   *)
(* at one of its symbols.                                                  *)
LEMMA FailedPreloadKeepsSymInv ==
    ASSUME SymInv, NEW addr \in MemAddr, NEW size \in Int,
           preload_symbols_fails(addr, size), UNCHANGED symAddr
    PROVE  SymInv'
<1> DEFINE win == Window(addr, size)
<1>1. CASE UNCHANGED cacheVars
    BY <1>1, UnchangedKeepsSymInv
<1>2. CASE ~UNCHANGED cacheVars
    <2>1. /\ ~IsEmpty(win) /\ ~c_get_symbols(win).hangs /\ MarkLoaded(win)
          /\ \E ids \in VMSymbols(win) :
               \E n \in {i \in DOMAIN ids : ids[i] \notin loaded} :
                   LoadSymbols(SubSeq(ids, 1, n - 1))
          /\ lost' = (lost \cup InWindow(win)) \ loaded'
        BY <1>2, Zenon DEF preload_symbols_fails
    <2> HIDE DEF win
    <2>2. /\ win.low \in Nat /\ win.next \in Nat /\ win.next <= SymMemSize
          /\ InWindow(win) \subseteq Syms /\ InWindow(win) = At(win.low .. win.next - 1)
        BY <2>1, PreloadWindow DEF win
    <2>3. PICK ids \in VMSymbols(win) :
               \E n \in {i \in DOMAIN ids : ids[i] \notin loaded} :
                   LoadSymbols(SubSeq(ids, 1, n - 1))
        BY <2>1
    <2>4. PICK n \in DOMAIN ids : LoadSymbols(SubSeq(ids, 1, n - 1))
        BY <2>3
    <2>5. ids \in Seq(Syms) /\ DOMAIN ids \subseteq Nat
        <3>1. ids \in Seq(InWindow(win)) /\ DOMAIN ids \subseteq Nat
            BY <2>2, ListsAll DEF VMSymbols
        <3> QED
            BY <2>2, <3>1
    <2> DEFINE part == SubSeq(ids, 1, n - 1)
    <2>6. part \in Seq(Syms)
        BY <2>4, <2>5
    <2> HIDE DEF part
    <2>7. DOMAIN part \subseteq Nat /\ Range(part) \subseteq Syms
        BY <2>6 DEF Range
    <2>8. LoadSymbols(part)
        BY <2>4 DEF part
    <2>9. /\ lost' \subseteq Syms /\ lost \ loaded' \subseteq lost'
          /\ At(win.low .. win.next - 1) \subseteq loaded' \cup lost'
        BY <2>1, <2>2 DEF SymInv, SymTypeInv
    <2> QED
        BY <2>1, <2>2, <2>7, <2>8, <2>9, MarkAndLoad
<1> QED
    BY <1>1, <1>2

(* The C API's loop does not end, and the cache stays as it is.            *)
LEMMA HungPreloadKeepsSymInv ==
    ASSUME SymInv, NEW addr \in MemAddr, NEW size \in Int,
           preload_symbols_hangs(addr, size), UNCHANGED symAddr
    PROVE  SymInv' /\ \E a \in MemAddr : Cardinality(At({a})) > ListCap
<1> DEFINE win == Window(addr, size)
<1>1. ~IsEmpty(win) /\ c_get_symbols(win).hangs /\ UNCHANGED cacheVars
    BY Zenon DEF preload_symbols_hangs
<1>2. SymInv'
    BY <1>1, UnchangedKeepsSymInv
<1> HIDE DEF win
<1>3. \E a \in MemAddr : Cardinality(At({a})) > ListCap
    BY <1>1, PreloadWindow DEF win
<1> QED
    BY <1>2, <1>3

-----------------------------------------------------------------------------
(* The questions for symbols, and the commands that ask them.              *)

(* The inductive invariant.                                                *)
CacheInv ==
    SymInv /\ found \subseteq Syms /\ GetSymbolsOnePerAddress /\ OnlyCrowdedAddressHangs

(* An answer is complete once the addresses of the question are marked.    *)
LEMMA AnswerIsComplete ==
    ASSUME SymInv', UNCHANGED symAddr, NEW rg, Returns(rg),
           \A s \in Syms : InRange(symAddr[s], rg) => symAddr[s] \in marked'
    PROVE  found' \subseteq Syms /\ GetSymbolsOnePerAddress'
<1>1. asked' = rg /\ found' = Listed(symsPos', rg)
    BY DEF Returns
<1>2. ASSUME NEW s \in found'
      PROVE  s \in Syms /\ InRange(symAddr[s], rg)
    <2>1. PICK a \in DOMAIN symsPos' : InRange(a, rg) /\ s = symsPos'[a]
        BY <1>1, <1>2 DEF Listed
    <2> QED
        BY <2>1 DEF SymInv, PosInv
<1>3. ASSUME NEW s \in Syms \ lost', InRange(symAddr[s], rg)
      PROVE  \E t \in found' : symAddr[t] = symAddr[s]
    <2>1. s \in loaded'
        BY <1>3 DEF SymInv, MarkedInv
    <2>2. symAddr[s] \in DOMAIN symsPos' /\ symAddr[symsPos'[symAddr[s]]] = symAddr[s]
        BY <2>1 DEF SymInv, PosInv
    <2>3. symsPos'[symAddr[s]] \in found'
        BY <1>1, <1>3, <2>2 DEF Listed
    <2> QED
        BY <2>2, <2>3
<1>4. ASSUME NEW s \in found', NEW t \in found', symAddr[s] = symAddr[t]
      PROVE  s = t
    <2>1. PICK a \in DOMAIN symsPos' : s = symsPos'[a]
        BY <1>1 DEF Listed
    <2>2. PICK b \in DOMAIN symsPos' : t = symsPos'[b]
        BY <1>1 DEF Listed
    <2>3. symAddr[s] = a /\ symAddr[t] = b
        BY <2>1, <2>2 DEF SymInv, PosInv
    <2> QED
        BY <1>4, <2>1, <2>2, <2>3
<1> QED
    BY <1>1, <1>2, <1>3, <1>4 DEF GetSymbolsOnePerAddress, InRange

(* No answer is complete for no question.                                  *)
LEMMA NoAnswerIsComplete ==
    ASSUME SymInv', NoResult
    PROVE  found' \subseteq Syms /\ GetSymbolsOnePerAddress'
<1>1. asked'.addr = 0 /\ asked'.size = 0 /\ found' = {}
    BY DEF NoResult, Nothing
<1>2. \A s \in Syms : symAddr'[s] \in Nat
    BY SymbolCacheAssumption DEF SymInv, SymTypeInv, MemAddr
<1>3. \A s \in Syms : ~InRange(symAddr'[s], asked')
    BY <1>1, <1>2 DEF InRange
<1> QED
    BY <1>1, <1>3 DEF GetSymbolsOnePerAddress, InRange

(* A step that asks nothing and leaves the table and the loop alone.       *)
LEMMA QuietKeepsCacheInv ==
    ASSUME CacheInv, SymInv', NoResult, UNCHANGED <<symAddr, hung>>
    PROVE  CacheInv'
<1>1. found' \subseteq Syms /\ GetSymbolsOnePerAddress'
    BY NoAnswerIsComplete
<1>2. OnlyCrowdedAddressHangs'
    BY DEF CacheInv, OnlyCrowdedAddressHangs, At, MemAddr
<1> QED
    BY <1>1, <1>2 DEF CacheInv

(* A question for symbols, whose window covers what is asked for: it is    *)
(* answered, or the VM throws, or the loop does not end.                   *)
Asks(addr, size, rg) ==
    /\ \/ preload_symbols(addr, size) /\ Returns(rg)
       \/ preload_symbols_fails(addr, size) /\ NoResult /\ UNCHANGED hung
       \/ preload_symbols_hangs(addr, size) /\ NoResult
    /\ UNCHANGED symAddr

(* Each outcome of a question keeps the invariant.                         *)
LEMMA AskKeepsCacheInv ==
    ASSUME CacheInv, NEW addr \in MemAddr, NEW size \in Int, NEW rg, Asks(addr, size, rg),
           \A s \in Syms : InRange(symAddr[s], rg) =>
                              addr <= symAddr[s] /\ symAddr[s] < addr + size
    PROVE  CacheInv'
<1>1. SymInv /\ UNCHANGED symAddr
    BY DEF CacheInv, Asks
<1>2. CASE preload_symbols(addr, size) /\ Returns(rg)
    <2>1. SymInv' /\ AllMarked(addr, size, marked')
        BY <1>1, <1>2, PreloadKeepsSymInv
    <2>2. \A s \in Syms : InRange(symAddr[s], rg) => symAddr[s] \in marked'
        BY <2>1 DEF AllMarked
    <2>3. found' \subseteq Syms /\ GetSymbolsOnePerAddress'
        BY <1>1, <1>2, <2>1, <2>2, AnswerIsComplete
    <2>4. OnlyCrowdedAddressHangs'
        BY <1>1, <1>2 DEF CacheInv, Returns, OnlyCrowdedAddressHangs, At, MemAddr
    <2> QED
        BY <2>1, <2>3, <2>4 DEF CacheInv
<1>3. CASE preload_symbols_fails(addr, size) /\ NoResult /\ UNCHANGED hung
    <2>1. SymInv'
        BY <1>1, <1>3, FailedPreloadKeepsSymInv
    <2> QED
        BY <1>1, <1>3, <2>1, QuietKeepsCacheInv
<1>4. CASE preload_symbols_hangs(addr, size) /\ NoResult
    <2>1. SymInv' /\ \E a \in MemAddr : Cardinality(At({a})) > ListCap
        BY <1>1, <1>4, HungPreloadKeepsSymInv
    <2>2. found' \subseteq Syms /\ GetSymbolsOnePerAddress'
        BY <1>4, <2>1, NoAnswerIsComplete
    <2>3. OnlyCrowdedAddressHangs'
        BY <1>1, <2>1 DEF OnlyCrowdedAddressHangs, At, MemAddr
    <2> QED
        BY <2>1, <2>2, <2>3 DEF CacheInv
<1> QED
    BY <1>2, <1>3, <1>4 DEF Asks

(* get_symbols, of any range that starts inside the memory.                *)
LEMMA GetSymbolsKeepsCacheInv ==
    ASSUME CacheInv, NEW addr \in MemAddr, NEW size \in Int, get_symbols(addr, size)
    PROVE  CacheInv'
<1> DEFINE rg == [addr |-> addr, size |-> size]
<1>1. Asks(addr, size, rg)
    BY Zenon DEF get_symbols, Asks
<1>2. \A a : InRange(a, rg) => addr <= a /\ a < addr + size
    BY DEF InRange
<1> HIDE DEF rg
<1> QED
    BY <1>1, <1>2, AskKeepsCacheInv

(* get_symbol_at: the window centred around an address holds the address.  *)
LEMMA GetSymbolAtKeepsCacheInv ==
    ASSUME CacheInv, NEW addr \in MemAddr, get_symbol_at(addr)
    PROVE  CacheInv'
<1> DEFINE rg == [addr |-> addr, size |-> 1]
           from == Centred(addr)
<1>1. Asks(from, LoadSize, rg)
    BY Zenon DEF get_symbol_at, Asks
<1>2. \A a : InRange(a, rg) => addr <= a /\ a < addr + 1
    BY DEF InRange
<1>3. from \in MemAddr /\ from <= addr /\ addr < from + LoadSize /\ LoadSize \in Int
    <2>1. addr \in Nat /\ addr < SymMemSize /\ SymMemSize \in Nat /\ LoadSize \in Nat /\ LoadSize > 0
        BY SymbolCacheAssumption DEF MemAddr
    <2>2. LoadSize \div 2 \in Nat /\ LoadSize \div 2 < LoadSize
        BY <2>1
    <2> QED
        BY <2>1, <2>2 DEF Centred, MemAddr
<1>4. \A s \in Syms : symAddr[s] \in Nat
    BY SymbolCacheAssumption DEF CacheInv, SymInv, SymTypeInv, MemAddr
<1> HIDE DEF rg, from
<1>5. \A s \in Syms : InRange(symAddr[s], rg) =>
                         from <= symAddr[s] /\ symAddr[s] < from + LoadSize
    <2> SUFFICES ASSUME NEW s \in Syms, InRange(symAddr[s], rg)
                 PROVE  from <= symAddr[s] /\ symAddr[s] < from + LoadSize
        OBVIOUS
    <2>1. addr <= symAddr[s] /\ symAddr[s] < addr + 1
        BY <1>2
    <2>2. addr \in Nat
        BY SymbolCacheAssumption DEF MemAddr
    <2>3. symAddr[s] = addr
        BY <1>4, <2>1, <2>2
    <2> QED
        BY <1>3, <2>3
<1> QED
    BY <1>1, <1>3, <1>5, AskKeepsCacheInv

(* One symbol that is loaded by its id.                                    *)
LEMMA LoadOneKeepsSymInv ==
    ASSUME SymInv, NEW s \in Syms, LoadSymbols(<<s>>), lost' = lost \ {s},
           UNCHANGED <<symAddr, ranges, marked>>
    PROVE  SymInv'
<1>1. DOMAIN <<s>> \subseteq Nat /\ Range(<<s>>) = {s}
    BY DEF Range
<1>2. PosInv' /\ loaded' = loaded \cup {s}
    <2> DEFINE ids == <<s>>
    <2>1. LoadSymbols(ids)
        OBVIOUS
    <2> HIDE DEF ids
    <2>2. DOMAIN ids \subseteq Nat /\ Range(ids) = {s}
        BY <1>1 DEF ids
    <2> QED
        BY <2>1, <2>2, LoadKeepsPos DEF SymInv
<1>3. SymTypeInv'
    BY <1>2 DEF SymInv, SymTypeInv, MemAddr
<1>4. RangesInv'
    BY DEF SymInv, RangesInv, MemAddr, MaxAddr, IsMap, Maximal, get, find_node
<1>5. MarkedInv'
    BY <1>2 DEF SymInv, MarkedInv
<1> QED
    BY <1>2, <1>3, <1>4, <1>5 DEF SymInv

(* The command code asks from the first line to the last, and only if all  *)
(* lines are inside the memory.                                            *)
LEMMA CodeKeepsCacheInv ==
    ASSUME CacheInv, NEW point \in MemAddr, NEW n \in Lines, cmd_code(point, n)
    PROVE  CacheInv'
<1> DEFINE lines == code_addrs(point, n)
<1>1. CASE ~(Range(lines) \subseteq MemAddr)
    <2>1. NoResult /\ UNCHANGED <<cacheVars, symAddr, hung>>
        BY <1>1, Zenon DEF cmd_code
    <2> QED
        BY <2>1, UnchangedKeepsSymInv, QuietKeepsCacheInv DEF CacheInv
<1>2. CASE Range(lines) \subseteq MemAddr
    <2>1. get_symbols(Head(lines), Last(lines) - Head(lines) + 1)
        BY <1>2, Zenon DEF cmd_code
    <2>2. DOMAIN lines = 1 .. 2 * n + 1
        BY DEF code_addrs
    <2>3. n \in Nat
        BY CodeListingAssumption
    <2> HIDE DEF lines
    <2>4. Len(lines) = 2 * n + 1
        <3>1. 2 * n + 1 \in Nat
            BY <2>3
        <3> QED
            BY <2>2, <3>1
    <2>5. Head(lines) = lines[1] /\ Last(lines) = lines[2 * n + 1]
        BY <2>4 DEF Last
    <2>6. 1 \in DOMAIN lines /\ 2 * n + 1 \in DOMAIN lines
        BY <2>2, <2>3
    <2>7. Head(lines) \in MemAddr /\ Last(lines) \in MemAddr
        BY <1>2, <2>5, <2>6 DEF Range
    <2> DEFINE addr == Head(lines)
               size == Last(lines) - Head(lines) + 1
    <2>8. addr \in MemAddr /\ size \in Int /\ get_symbols(addr, size)
        BY <2>1, <2>7, SymbolCacheAssumption DEF MemAddr
    <2> HIDE DEF addr, size
    <2> QED
        BY <2>8, GetSymbolsKeepsCacheInv
<1> QED
    BY <1>1, <1>2

(* Every command and every other call keeps the invariant.                 *)
LEMMA StepKeepsCacheInv ==
    ASSUME CacheInv, [Next]_listVars
    PROVE  CacheInv'
<1>1. ASSUME NEW point \in MemAddr, NEW n \in Lines, cmd_code(point, n)
      PROVE  CacheInv'
    BY <1>1, CodeKeepsCacheInv
<1>2. ASSUME NEW start \in MemAddr, cmd_state(start)
      PROVE  CacheInv'
    BY <1>2, GetSymbolsKeepsCacheInv DEF cmd_state
<1>3. ASSUME NEW s \in Syms, cmd_psym(s)
      PROVE  CacheInv'
    <2>1. /\ LoadSymbols(<<s>>) /\ lost' = lost \ {s} /\ NoResult
          /\ UNCHANGED <<symAddr, ranges, marked, hung>>
        BY <1>3, Zenon DEF cmd_psym, get_symbol_infos
    <2>2. SymInv'
        BY <2>1, LoadOneKeepsSymInv DEF CacheInv
    <2> QED
        BY <2>1, <2>2, QuietKeepsCacheInv
<1>4. CASE ResolveRefs
    <2>1. NoResult /\ UNCHANGED <<symAddr, hung>>
        BY <1>4, Zenon DEF ResolveRefs
    <2>2. SymInv'
        <3>1. CASE UNCHANGED cacheVars
            BY <2>1, <3>1, UnchangedKeepsSymInv DEF CacheInv
        <3>2. CASE ~UNCHANGED cacheVars
            <4>1. PICK s \in Syms : /\ LoadSymbols(<<s>>) /\ lost' = lost \ {s}
                                    /\ UNCHANGED <<ranges, marked>>
                BY <1>4, <3>2, Zenon DEF ResolveRefs
            <4> QED
                BY <2>1, <4>1, LoadOneKeepsSymInv DEF CacheInv
        <3> QED
            BY <3>1, <3>2
    <2> QED
        BY <2>1, <2>2, QuietKeepsCacheInv
<1>5. CASE Shows
    <2>1. NoResult /\ UNCHANGED <<cacheVars, symAddr, hung>>
        BY <1>5, Zenon DEF Shows
    <2> QED
        BY <2>1, UnchangedKeepsSymInv, QuietKeepsCacheInv DEF CacheInv
<1>6. CASE OtherCall
    <2>1. ASSUME NEW addr \in MemAddr, NEW size \in 2 .. SymMemSize, get_symbols(addr, size)
          PROVE  CacheInv'
        BY <2>1, GetSymbolsKeepsCacheInv
    <2>2. ASSUME NEW addr \in MemAddr, get_symbol_at(addr)
          PROVE  CacheInv'
        BY <2>2, GetSymbolAtKeepsCacheInv
    <2> QED
        BY <1>6, <2>1, <2>2 DEF OtherCall
<1>7. CASE UNCHANGED listVars
    <2>1. UNCHANGED <<cacheVars, symAddr, asked, found, hung>>
        BY <1>7, Zenon DEF listVars, symVars
    <2>2. SymInv'
        BY <2>1, UnchangedKeepsSymInv DEF CacheInv
    <2>3. UNCHANGED lost
        BY <2>1 DEF cacheVars
    <2>4. found' \subseteq Syms /\ GetSymbolsOnePerAddress'
        BY <2>1, <2>3 DEF CacheInv, GetSymbolsOnePerAddress, InRange
    <2>5. OnlyCrowdedAddressHangs'
        BY <2>1 DEF CacheInv, OnlyCrowdedAddressHangs, At, MemAddr
    <2> QED
        BY <2>2, <2>4, <2>5 DEF CacheInv
<1>8. CASE Spin
    BY <1>7, <1>8 DEF Spin
<1> QED
    BY <1>1, <1>2, <1>3, <1>4, <1>5, <1>6, <1>7, <1>8 DEF Next

(* At first nothing is loaded, nothing marked and nothing asked.           *)
LEMMA InitCacheInv ==
    ASSUME Init
    PROVE  CacheInv
<1>1. MaxAddr \in Nat /\ MemAddr = 0 .. MaxAddr
    BY SymbolCacheAssumption DEF MaxAddr, MemAddr
<1>2. SymInit
    BY DEF Init
<1>3. RangesInv
    BY <1>1, <1>2, NewMapIsMap DEF RangesInv, SymInit
<1>4. SymTypeInv
    BY <1>2 DEF SymTypeInv, SymInit
<1>5. PosInv
    BY <1>2 DEF PosInv, SymInit
<1>6. MarkedInv
    BY <1>2 DEF MarkedInv, SymInit
<1>7. found \subseteq Syms /\ GetSymbolsOnePerAddress
    <2>1. asked.addr = 0 /\ asked.size = 0 /\ found = {}
        BY <1>2 DEF SymInit, Nothing
    <2>2. \A s \in Syms : symAddr[s] \in Nat
        BY <1>1, <1>4 DEF SymTypeInv
    <2> QED
        BY <2>1, <2>2 DEF GetSymbolsOnePerAddress, InRange
<1>8. OnlyCrowdedAddressHangs
    BY <1>2 DEF OnlyCrowdedAddressHangs, SymInit
<1> QED
    BY <1>3, <1>4, <1>5, <1>6, <1>7, <1>8 DEF CacheInv, SymInv

(* The invariant holds in every session.                                   *)
LEMMA CacheInvHolds ==
    Spec => []CacheInv
<1>1. Init => CacheInv
    BY InitCacheInv
<1>2. CacheInv /\ [Next]_listVars => CacheInv'
    BY StepKeepsCacheInv
<1> QED
    BY <1>1, <1>2, PTL DEF Spec

(* get_symbols and get_symbol_at list one symbol, and no more than one,    *)
(* for every address they are asked for that has symbols, whatever was     *)
(* loaded before and whatever failed (debugger.cc:281-299).                *)
THEOREM QuestionsAreAnswered ==
    Spec => []GetSymbolsOnePerAddress
<1>1. CacheInv => GetSymbolsOnePerAddress
    BY DEF CacheInv
<1> QED
    BY <1>1, CacheInvHolds, PTL

(* The C API's loop ends but for an address with more symbols than a list  *)
(* holds (server_capi/vm-api.cc:113-131).                                  *)
THEOREM LoopEndsUnlessCrowded ==
    Spec => []OnlyCrowdedAddressHangs
<1>1. CacheInv => OnlyCrowdedAddressHangs
    BY DEF CacheInv
<1> QED
    BY <1>1, CacheInvHolds, PTL

(* _syms_ranges is the set of the marked addresses in maximal ranges, and  *)
(* range_of gives them (range-map.hh:55).                                  *)
THEOREM RangesStayExact ==
    Spec => []RangesExact
<1>1. CacheInv => RangesExact
    BY RangesAreExact DEF CacheInv, SymInv
<1> QED
    BY <1>1, CacheInvHolds, PTL

(* The symbols of an address that is not asked for again were loaded, but  *)
(* for those the VM threw at (debugger.hh:215).                            *)
THEOREM WindowsStayComplete ==
    Spec => []LoadedWindowsComplete
<1>1. ASSUME CacheInv, NEW s \in Syms, get(ranges, symAddr[s]) = 1
      PROVE  s \in loaded \cup lost
    <2>1. symAddr[s] \in MemAddr
        BY <1>1 DEF CacheInv, SymInv, SymTypeInv
    <2>2. symAddr[s] \in marked
        BY <1>1, <2>1 DEF CacheInv, SymInv, RangesInv
    <2> QED
        BY <1>1, <2>2 DEF CacheInv, SymInv, MarkedInv
<1>2. CacheInv => LoadedWindowsComplete
    BY <1>1 DEF LoadedWindowsComplete
<1> QED
    BY <1>2, CacheInvHolds, PTL

-----------------------------------------------------------------------------
(* The listing of the command code.                                        *)

(* The address after the instruction at a, as disassembly sees it.         *)
NextIns(a) == IF a \in MemAddr THEN a + insSize[a] ELSE SymMemSize

(* A walk over the instructions from some address on.                      *)
Walks(f, from, m) == f[0] = from /\ \A i \in 1 .. m : f[i] = NextIns(f[i - 1])

(* There is a walk of any length.                                          *)
LEMMA WalkExists ==
    ASSUME insSize \in Layouts, NEW m \in Nat, NEW from \in Nat
    PROVE  \E f \in [0 .. m -> Nat] : Walks(f, from, m)
<1> DEFINE F == [p \in (1 .. m) \X Nat |-> NextIns(p[2])]
<1>1. \A a \in Nat : NextIns(a) \in Nat
    <2> TAKE a \in Nat
    <2>1. CASE a \in MemAddr
        <3>1. DOMAIN insSize = MemAddr /\ Range(insSize) \subseteq Nat \ {0}
            BY CodeListingAssumption
        <3>2. insSize[a] \in Nat
            BY <2>1, <3>1 DEF Range
        <3> QED
            BY <2>1, <3>2 DEF NextIns
    <2>2. CASE a \notin MemAddr
        BY <2>2, SymbolCacheAssumption DEF NextIns
    <2> QED
        BY <2>1, <2>2
<1>2. IsStep(F, m, Nat)
    BY <1>1 DEF IsStep
<1>3. ASSUME NEW i \in 1 .. m, NEW a \in Nat
      PROVE  F[<<i, a>>] = NextIns(a)
    OBVIOUS
<1> HIDE DEF F
<1>4. PICK f \in [0 .. m -> Nat] : Iterates(F, from, m, f)
    BY <1>2, RecursionExists
<1>5. ASSUME NEW i \in 1 .. m
      PROVE  f[i] = NextIns(f[i - 1])
    <2>1. f[i - 1] \in Nat
        OBVIOUS
    <2>2. f[i] = F[<<i, f[i - 1]>>]
        BY <1>4 DEF Iterates
    <2> QED
        BY <1>3, <2>1, <2>2
<1>6. f[0] = from
    BY <1>4 DEF Iterates
<1> QED
    BY <1>5, <1>6 DEF Walks

(* Two walks from one address go the same way.                             *)
LEMMA WalksAgree ==
    ASSUME NEW m \in Nat, NEW from, NEW f, NEW g, Walks(f, from, m), Walks(g, from, m)
    PROVE  \A i \in 0 .. m : f[i] = g[i]
<1> DEFINE Bad == {i \in 0 .. m : f[i] # g[i]}
<1> SUFFICES ASSUME Bad # {}
             PROVE  FALSE
    OBVIOUS
<1>1. Bad \in SUBSET Nat
    OBVIOUS
<1>2. PICK i \in Bad : \A k \in Bad : i <= k
    <2> HIDE DEF Bad
    <2> QED
        BY <1>1, LeastNumber
<1>3. i \in 0 .. m /\ f[i] # g[i]
    OBVIOUS
<1>4. i # 0
    BY <1>3 DEF Walks
<1>5. i \in 1 .. m /\ i - 1 \in 0 .. m /\ ~(i <= i - 1)
    BY <1>3, <1>4
<1>6. i - 1 \notin Bad
    <2> HIDE DEF Bad
    <2> QED
        BY <1>2, <1>5
<1>7. f[i - 1] = g[i - 1]
    BY <1>5, <1>6
<1> QED
    BY <1>3, <1>5, <1>7 DEF Walks

(* The lines of a listing are a walk from its start.                       *)
LEMMA LinesWalk ==
    ASSUME insSize \in Layouts, NEW point \in Nat, NEW n \in Nat
    PROVE  /\ DOMAIN code_addrs(point, n) = 1 .. 2 * n + 1
           /\ \E f \in [0 .. 2 * n -> Nat] :
                 /\ Walks(f, Start(point, n), 2 * n)
                 /\ \A i \in 0 .. 2 * n : code_addrs(point, n)[i + 1] = f[i]
<1> DEFINE from == Start(point, n)
           N    == 2 * n + 1
           IsAddr(addr) == addr = [i \in 1 .. N |->
                                     IF i = 1 THEN from ELSE NextIns(addr[i - 1])]
           addr == CHOOSE x : IsAddr(x)
<1>1. code_addrs(point, n) = [i \in 1 .. N |-> addr[i]]
    BY DEF code_addrs, NextIns
<1>2. N \in Nat /\ 2 * n \in Nat /\ N = 2 * n + 1 /\ from \in Nat
    BY DEF Start
<1> HIDE DEF N, from
<1>3. PICK f \in [0 .. 2 * n -> Nat] : Walks(f, from, 2 * n)
    BY <1>2, WalkExists
<1> DEFINE g == [i \in 1 .. N |-> f[i - 1]]
<1>4. \A i \in 1 .. N : g[i] = IF i = 1 THEN from ELSE NextIns(g[i - 1])
    <2> TAKE i \in 1 .. N
    <2>1. CASE i = 1
        BY <1>3, <2>1 DEF Walks
    <2>2. CASE i # 1
        <3>1. i - 1 \in 1 .. 2 * n /\ i - 1 \in 1 .. N
            BY <1>2, <2>2
        <3>2. g[i] = f[i - 1] /\ g[i - 1] = f[i - 1 - 1]
            BY <3>1
        <3>3. f[i - 1] = NextIns(f[i - 1 - 1])
            BY <1>3, <3>1 DEF Walks
        <3> QED
            BY <2>2, <3>2, <3>3
    <2> QED
        BY <2>1, <2>2
<1>5. g = [i \in 1 .. N |-> g[i]]
    OBVIOUS
<1> HIDE DEF g
<1>6. g = [i \in 1 .. N |-> IF i = 1 THEN from ELSE NextIns(g[i - 1])]
    BY <1>4, <1>5, Zenon
<1>7. IsAddr(addr)
    <2>1. IsAddr(g)
        BY <1>6
    <2> HIDE DEF IsAddr
    <2> QED
        BY <2>1
<1> HIDE DEF addr
<1>8. \A i \in 1 .. N : addr[i] = IF i = 1 THEN from ELSE NextIns(addr[i - 1])
    BY <1>7, Zenon
<1> DEFINE h == [i \in 0 .. 2 * n |-> addr[i + 1]]
<1>9. Walks(h, from, 2 * n)
    <2>1. h[0] = from
        BY <1>2, <1>8
    <2>2. ASSUME NEW i \in 1 .. 2 * n
          PROVE  h[i] = NextIns(h[i - 1])
        <3>1. i + 1 \in 1 .. N /\ i + 1 # 1 /\ (i + 1) - 1 = (i - 1) + 1
            BY <1>2
        <3>2. h[i] = addr[i + 1] /\ h[i - 1] = addr[(i - 1) + 1]
            BY <1>2
        <3>3. addr[i + 1] = NextIns(addr[(i + 1) - 1])
            BY <1>8, <3>1
        <3> QED
            BY <3>1, <3>2, <3>3
    <2> QED
        BY <2>1, <2>2 DEF Walks
<1>10. \A i \in 0 .. 2 * n : h[i] = f[i]
    <2> HIDE DEF h
    <2> QED
        BY <1>2, <1>3, <1>9, WalksAgree
<1>11. \A i \in 0 .. 2 * n : i + 1 \in 1 .. N /\ code_addrs(point, n)[i + 1] = f[i]
    BY <1>1, <1>2, <1>10
<1>12. DOMAIN code_addrs(point, n) = 1 .. N
    BY <1>1
<1> QED
    BY <1>3, <1>11, <1>12 DEF from, N

(* A listing at work is that of some position, all inside the memory, and  *)
(* the last question was for its symbols.                                  *)
IsListing(lst) ==
    /\ lst.point \in MemAddr /\ lst.n \in Lines
    /\ lst.lines = code_addrs(lst.point, lst.n)
    /\ Range(lst.lines) \subseteq MemAddr

IsQuestion(lines, rg) ==
    rg.addr = Head(lines) /\ rg.size = Last(lines) - Head(lines) + 1

ListingInv ==
    /\ insSize \in Layouts
    /\ listing.lines # <<>> => IsListing(listing) /\ IsQuestion(listing.lines, asked)

(* Every step keeps the listing and its question together.                 *)
LEMMA StepKeepsListingInv ==
    ASSUME ListingInv, [Next]_listVars
    PROVE  ListingInv'
<1>1. NoListing.lines = <<>>
    BY DEF NoListing
<1>2. ASSUME NoOutput
      PROVE  ListingInv'
    BY <1>1, <1>2 DEF NoOutput, ListingInv
<1>3. ASSUME NEW point \in MemAddr, NEW n \in Lines, cmd_code(point, n)
      PROVE  ListingInv'
    <2> DEFINE lines == code_addrs(point, n)
               addr == Head(lines)
               size == Last(lines) - Head(lines) + 1
    <2>1. CASE NoOutput
        BY <1>2, <2>1
    <2>2. CASE ~NoOutput
        <3>1. /\ Range(lines) \subseteq MemAddr /\ get_symbols(addr, size)
              /\ listing' = IF asked' = Nothing THEN NoListing
                            ELSE [point |-> point, n |-> n, lines |-> lines,
                                  labels |-> Labels(lines, found')]
              /\ UNCHANGED insSize
            BY <1>3, <2>2, Zenon DEF cmd_code
        <3>2. asked' # Nothing
            BY <2>2, <3>1, Zenon DEF NoOutput
        <3>3. asked' = [addr |-> addr, size |-> size]
            BY <3>1, <3>2, Zenon DEF get_symbols, NoResult, Returns
        <3>4. listing'.point = point /\ listing'.n = n /\ listing'.lines = lines
            <4> HIDE DEF lines
            <4> QED
                BY <3>1, <3>2
        <3>5. lines = code_addrs(point, n)'
            BY <3>1 DEF code_addrs, Start, MemAddr
        <3>6. IsQuestion(lines, asked')
            <4> HIDE DEF lines
            <4> QED
                BY <3>3 DEF IsQuestion
        <3> HIDE DEF lines
        <3>7. IsListing(listing)'
            BY <3>1, <3>4, <3>5 DEF IsListing, MemAddr
        <3>8. IsQuestion(listing.lines, asked)'
            BY <3>4, <3>6 DEF IsQuestion
        <3> QED
            BY <3>1, <3>7, <3>8 DEF ListingInv
    <2> QED
        BY <2>1, <2>2
<1>4. CASE UNCHANGED listVars
    <2>1. UNCHANGED <<asked, insSize, listing>>
        BY <1>4, Zenon DEF listVars, symVars
    <2>2. \A p, n : code_addrs(p, n)' = code_addrs(p, n)
        BY <2>1 DEF code_addrs, Start, MemAddr
    <2> QED
        BY <2>1, <2>2 DEF ListingInv, IsListing, IsQuestion, MemAddr
<1>5. CASE Spin
    BY <1>4, <1>5 DEF Spin
<1>6. ASSUME NEW start \in MemAddr, cmd_state(start)
      PROVE  NoOutput
    BY <1>6 DEF cmd_state
<1>7. ASSUME NEW s \in Syms, cmd_psym(s)
      PROVE  NoOutput
    BY <1>7 DEF cmd_psym
<1>8. ResolveRefs \/ Shows \/ OtherCall => NoOutput
    BY Zenon DEF ResolveRefs, Shows, OtherCall
<1> QED
    BY <1>2, <1>3, <1>4, <1>5, <1>6, <1>7, <1>8 DEF Next

-----------------------------------------------------------------------------
(* The labels of a listing.                                                *)

(* The lines of a listing have rising addresses.                           *)
Rising(lines) == \A i, j \in DOMAIN lines : i < j => lines[i] < lines[j]

(* A walk that stays inside the memory rises: no instruction is empty.     *)
LEMMA WalkRises ==
    ASSUME insSize \in Layouts, NEW m \in Nat, NEW from, NEW f, Walks(f, from, m),
           \A i \in 0 .. m : f[i] \in MemAddr
    PROVE  \A i, j \in 0 .. m : i < j => f[i] < f[j]
<1> DEFINE Bad == {j \in 0 .. m : \E i \in 0 .. m : i < j /\ ~(f[i] < f[j])}
<1> SUFFICES ASSUME Bad # {}
             PROVE  FALSE
    OBVIOUS
<1>1. Bad \in SUBSET Nat
    OBVIOUS
<1>2. PICK j \in Bad : \A k \in Bad : j <= k
    <2> HIDE DEF Bad
    <2> QED
        BY <1>1, LeastNumber
<1>3. j \in 0 .. m /\ \E i \in 0 .. m : i < j /\ ~(f[i] < f[j])
    OBVIOUS
<1>4. PICK i \in 0 .. m : i < j /\ ~(f[i] < f[j])
    BY <1>3
<1>5. j \in 1 .. m /\ j - 1 \in 0 .. m /\ ~(j <= j - 1)
    BY <1>3, <1>4
<1>6. j - 1 \notin Bad
    <2> HIDE DEF Bad
    <2> QED
        BY <1>2, <1>5
<1>7. i < j - 1 => f[i] < f[j - 1]
    BY <1>5, <1>6
<1>8. f[j - 1] < f[j]
    <2> DEFINE a == f[j - 1]
    <2>1. a \in MemAddr /\ a \in Nat
        BY <1>5, SymbolCacheAssumption DEF MemAddr
    <2>2. f[j] = NextIns(a)
        BY <1>5 DEF Walks
    <2> HIDE DEF a
    <2>3. DOMAIN insSize = MemAddr /\ Range(insSize) \subseteq Nat \ {0}
        BY CodeListingAssumption
    <2>4. insSize[a] \in Nat \ {0}
        BY <2>1, <2>3 DEF Range
    <2>5. f[j] = a + insSize[a]
        BY <2>1, <2>2 DEF NextIns
    <2> QED
        BY <2>1, <2>4, <2>5 DEF a
<1>9. f[i] \in Nat /\ f[j - 1] \in Nat /\ f[j] \in Nat /\ (i < j - 1 \/ i = j - 1)
    BY <1>4, <1>5, SymbolCacheAssumption DEF MemAddr
<1> QED
    BY <1>4, <1>7, <1>8, <1>9

(* So the lines of a listing inside the memory rise.                       *)
LEMMA LinesRise ==
    ASSUME insSize \in Layouts, NEW point \in Nat, NEW n \in Nat, NEW lines,
           lines = code_addrs(point, n), Range(lines) \subseteq MemAddr
    PROVE  Rising(lines) /\ lines \in Seq(MemAddr) /\ Len(lines) = 2 * n + 1
<1>1. DOMAIN lines = 1 .. 2 * n + 1 /\
      \E f \in [0 .. 2 * n -> Nat] :
          Walks(f, Start(point, n), 2 * n) /\ \A i \in 0 .. 2 * n : lines[i + 1] = f[i]
    BY LinesWalk
<1>2. PICK f \in [0 .. 2 * n -> Nat] :
          Walks(f, Start(point, n), 2 * n) /\ \A i \in 0 .. 2 * n : lines[i + 1] = f[i]
    BY <1>1
<1>3. 2 * n \in Nat /\ \A i \in 0 .. 2 * n : i + 1 \in DOMAIN lines
    BY <1>1
<1>4. \A i \in DOMAIN lines : lines[i] \in MemAddr
    BY DEF Range
<1>5. \A i \in 0 .. 2 * n : f[i] \in MemAddr
    BY <1>2, <1>3, <1>4
<1>6. \A i, j \in 0 .. 2 * n : i < j => f[i] < f[j]
    BY <1>2, <1>3, <1>5, WalkRises
<1>7. ASSUME NEW i \in DOMAIN lines, NEW j \in DOMAIN lines, i < j
      PROVE  lines[i] < lines[j]
    <2>1. /\ i - 1 \in 0 .. 2 * n /\ j - 1 \in 0 .. 2 * n /\ i - 1 < j - 1
          /\ i - 1 + 1 = i /\ j - 1 + 1 = j
        <3>1. i \in 1 .. 2 * n + 1 /\ j \in 1 .. 2 * n + 1
            BY <1>1
        <3> QED
            BY <1>3, <1>7, <3>1
    <2>2. lines[i - 1 + 1] = f[i - 1] /\ lines[j - 1 + 1] = f[j - 1]
        BY <1>2, <2>1
    <2> QED
        BY <1>6, <2>1, <2>2
<1>8. lines \in Seq(MemAddr) /\ Len(lines) = 2 * n + 1
    <2> DEFINE N == 2 * n + 1
    <2>1. N \in Nat /\ DOMAIN lines = 1 .. N
        BY <1>1
    <2>2. lines = [i \in DOMAIN lines |-> lines[i]]
        BY DEF code_addrs
    <2> HIDE DEF N
    <2>3. lines \in [1 .. N -> MemAddr]
        BY <1>4, <2>1, <2>2
    <2> QED
        BY <2>1, <2>3 DEF N
<1> QED
    BY <1>7, <1>8 DEF Rising

(* The symbols whose turn has not come, line by line.                      *)
Passes(d, lines, syms) ==
    /\ d[0] = syms
    /\ \A i \in 1 .. Len(lines) : d[i] = d[i - 1] \ LabelOf(d[i - 1], lines[i])

(* The loop over the lines computes them.                                  *)
LEMMA LabelsComputes ==
    ASSUME NEW S, NEW lines \in Seq(S), NEW syms
    PROVE  \E d \in [0 .. Len(lines) -> SUBSET syms] :
              Passes(d, lines, syms) /\ Labels(lines, syms) = syms \ d[Len(lines)]
<1> DEFINE N == Len(lines)
           IsDefs(d) == d = [i \in 0 .. N |->
                               IF i = 0 THEN syms ELSE d[i - 1] \ LabelOf(d[i - 1], lines[i])]
           defs == CHOOSE d : IsDefs(d)
<1>1. Labels(lines, syms) = syms \ defs[N]
    BY DEF Labels
<1>2. N \in Nat
    OBVIOUS
<1> DEFINE V == SUBSET syms
           F == [p \in (1 .. N) \X V |-> p[2] \ LabelOf(p[2], lines[p[1]])]
<1>3. IsStep(F, N, V)
    BY DEF IsStep
<1>4. ASSUME NEW i \in 1 .. N, NEW v \in V
      PROVE  F[<<i, v>>] = v \ LabelOf(v, lines[i])
    OBVIOUS
<1>5. syms \in V
    OBVIOUS
<1> HIDE DEF F, V, N
<1>6. PICK f \in [0 .. N -> V] : Iterates(F, syms, N, f)
    BY <1>2, <1>3, <1>5, RecursionExists
<1>7. f[0] = syms
    BY <1>6 DEF Iterates
<1>8. ASSUME NEW i \in 1 .. N
      PROVE  f[i] = f[i - 1] \ LabelOf(f[i - 1], lines[i])
    <2>1. i - 1 \in 0 .. N
        BY <1>2
    <2>2. f[i - 1] \in V
        BY <2>1
    <2>3. f[i] = F[<<i, f[i - 1]>>]
        BY <1>6 DEF Iterates
    <2> QED
        BY <1>4, <2>2, <2>3
<1>9. \A i \in 0 .. N : i = 0 \/ i \in 1 .. N
    BY <1>2
<1>10. IsDefs(f)
    <2>1. \A i \in 0 .. N : f[i] = IF i = 0 THEN syms
                                   ELSE f[i - 1] \ LabelOf(f[i - 1], lines[i])
        BY <1>7, <1>8, <1>9, Zenon
    <2>2. f = [i \in 0 .. N |-> f[i]]
        OBVIOUS
    <2> QED
        BY <2>1, <2>2, Zenon
<1>11. IsDefs(defs)
    <2> HIDE DEF IsDefs
    <2> QED
        BY <1>10
<1> HIDE DEF defs
<1>12. DOMAIN defs = 0 .. N /\ defs = [i \in 0 .. N |-> defs[i]]
    BY <1>11
<1>13. \A i \in 0 .. N : defs[i] = IF i = 0 THEN syms
                                   ELSE defs[i - 1] \ LabelOf(defs[i - 1], lines[i])
    BY <1>11, Zenon
<1>14. Passes(defs, lines, syms)
    <2>1. 0 \in 0 .. N /\ \A i \in 1 .. N : i \in 0 .. N /\ i # 0
        BY <1>2
    <2>2. defs[0] = syms
        BY <1>13, <2>1, Zenon
    <2>3. \A i \in 1 .. N : defs[i] = defs[i - 1] \ LabelOf(defs[i - 1], lines[i])
        BY <1>13, <2>1, Zenon
    <2> QED
        BY <2>2, <2>3, Zenon DEF Passes, N
<1>15. \A i \in 0 .. N : defs[i] = f[i]
    <2> DEFINE Bad == {i \in 0 .. N : defs[i] # f[i]}
    <2> SUFFICES ASSUME Bad # {}
                 PROVE  FALSE
        OBVIOUS
    <2>1. Bad \in SUBSET Nat
        BY <1>2
    <2>2. PICK i \in Bad : \A k \in Bad : i <= k
        <3> HIDE DEF Bad
        <3> QED
            BY <2>1, LeastNumber
    <2>3. i \in 0 .. N /\ defs[i] # f[i]
        OBVIOUS
    <2>4. i # 0
        BY <1>7, <1>13, <2>3, Zenon
    <2>5. i \in 1 .. N /\ i - 1 \in 0 .. N /\ ~(i <= i - 1)
        BY <1>2, <2>3, <2>4
    <2>6. i - 1 \notin Bad
        <3> HIDE DEF Bad
        <3> QED
            BY <2>2, <2>5
    <2>7. defs[i - 1] = f[i - 1]
        BY <2>5, <2>6
    <2>8. defs[i] = f[i]
        BY <1>8, <1>13, <2>3, <2>4, <2>5, <2>7, Zenon
    <2> QED
        BY <2>3, <2>8
<1>16. defs \in [0 .. N -> V]
    BY <1>12, <1>15
<1> QED
    BY <1>1, <1>14, <1>16 DEF N, V

(* The labels are those of lines, and one is missing only behind a symbol  *)
(* that starts no line.                                                    *)
RightLabels(lines, syms, labels, addr) ==
    /\ \A s \in labels : addr[s] \in Range(lines)
    /\ \A u \in syms : addr[u] \in Range(lines) =>
          \/ u \in labels
          \/ \E t \in syms : addr[t] \notin Range(lines) /\ addr[t] < addr[u]

(* Every label is that of a line.                                          *)
LEMMA LabelsAreOfLines ==
    ASSUME NEW S, NEW lines \in Seq(S), NEW syms, NEW d, Passes(d, lines, syms)
    PROVE  \A i \in 0 .. Len(lines) : \A s \in syms \ d[i] : symAddr[s] \in Range(lines)
<1> DEFINE N == Len(lines)
           Fits(i) == \A s \in syms \ d[i] : symAddr[s] \in Range(lines)
           Bad == {i \in 0 .. N : ~Fits(i)}
<1> SUFFICES ASSUME Bad # {}
             PROVE  FALSE
    OBVIOUS
<1>1. Bad \in SUBSET Nat
    OBVIOUS
<1>2. PICK i \in Bad : \A k \in Bad : i <= k
    <2> HIDE DEF Bad
    <2> QED
        BY <1>1, LeastNumber
<1>3. i \in 0 .. N /\ ~Fits(i)
    OBVIOUS
<1>4. i # 0
    BY <1>3 DEF Passes
<1>5. i \in 1 .. N /\ i - 1 \in 0 .. N /\ ~(i <= i - 1)
    BY <1>3, <1>4
<1>6. i - 1 \notin Bad
    <2> HIDE DEF Bad
    <2> QED
        BY <1>2, <1>5
<1>7. Fits(i - 1)
    BY <1>5, <1>6
<1>8. d[i] = d[i - 1] \ LabelOf(d[i - 1], lines[i])
    BY <1>5 DEF Passes
<1>9. lines[i] \in Range(lines)
    BY <1>5 DEF Range
<1>10. \A s \in LabelOf(d[i - 1], lines[i]) : symAddr[s] = lines[i]
    BY DEF LabelOf
<1>11. Fits(i)
    BY <1>7, <1>8, <1>9, <1>10
<1> QED
    BY <1>3, <1>11

(* A symbol that starts a line has its turn, unless one before it starts   *)
(* none: until then the loop passes every symbol with its line.            *)
LEMMA LabelsReach ==
    ASSUME symAddr \in [Syms -> MemAddr], NEW lines \in Seq(MemAddr), Rising(lines),
           NEW syms \in SUBSET Syms, NEW d \in [0 .. Len(lines) -> SUBSET syms],
           Passes(d, lines, syms), NEW u \in syms, symAddr[u] \in Range(lines),
           \A t \in syms : symAddr[t] < symAddr[u] => symAddr[t] \in Range(lines)
    PROVE  u \notin d[Len(lines)]
<1> DEFINE N == Len(lines)
           Early(i) == \A t \in syms : symAddr[t] <= lines[i] /\ symAddr[t] <= symAddr[u]
                                          => t \notin d[i]
           Bad == {i \in 1 .. N : ~Early(i)}
<1>1. N \in Nat /\ DOMAIN lines = 1 .. N
    OBVIOUS
<1>2. /\ \A i \in 1 .. N : lines[i] \in Nat
      /\ \A s \in Syms : symAddr[s] \in Nat
    BY SymbolCacheAssumption DEF MemAddr
<1>3. \A t \in syms : symAddr[t] <= symAddr[u] => \E k \in 1 .. N : symAddr[t] = lines[k]
    <2> SUFFICES ASSUME NEW t \in syms, symAddr[t] <= symAddr[u]
                 PROVE  \E k \in 1 .. N : symAddr[t] = lines[k]
        OBVIOUS
    <2>1. symAddr[t] < symAddr[u] \/ symAddr[t] = symAddr[u]
        BY <1>2
    <2>2. symAddr[t] \in Range(lines)
        BY <2>1
    <2> QED
        BY <1>1, <2>2 DEF Range
<1>4. \A i, j \in 1 .. N : i < j => lines[i] < lines[j]
    BY <1>1 DEF Rising
<1>5. Bad = {}
    <2> SUFFICES ASSUME Bad # {}
                 PROVE  FALSE
        OBVIOUS
    <2>1. Bad \in SUBSET Nat
        OBVIOUS
    <2>2. PICK i \in Bad : \A k \in Bad : i <= k
        <3> HIDE DEF Bad
        <3> QED
            BY <2>1, LeastNumber
    <2>3. i \in 1 .. N /\ ~Early(i)
        OBVIOUS
    <2>4. PICK t \in syms : symAddr[t] <= lines[i] /\ symAddr[t] <= symAddr[u] /\ t \in d[i]
        BY <2>3
    <2>5. d[i] = d[i - 1] \ LabelOf(d[i - 1], lines[i]) /\ d[i - 1] \subseteq syms
        BY <1>1, <2>3 DEF Passes
    <2>6. ASSUME NEW x \in d[i - 1], symAddr[x] <= symAddr[u], symAddr[x] < lines[i]
          PROVE  FALSE
        <3>1. x \in syms
            BY <2>5
        <3>2. PICK k \in 1 .. N : symAddr[x] = lines[k]
            BY <1>3, <2>6, <3>1
        <3>3. k < i
            <4>1. ~(i < k) /\ i # k
                BY <1>2, <1>4, <2>3, <2>6, <3>2
            <4> QED
                BY <1>1, <2>3, <4>1
        <3>4. i - 1 \in 1 .. N /\ ~(i <= i - 1) /\ (k < i - 1 \/ k = i - 1)
            BY <1>1, <2>3, <3>3
        <3>5. i - 1 \notin Bad
            <4> HIDE DEF Bad
            <4> QED
                BY <2>2, <3>4
        <3>6. Early(i - 1)
            BY <3>4, <3>5
        <3>7. symAddr[x] <= lines[i - 1]
            BY <1>2, <1>4, <3>2, <3>4
        <3> QED
            BY <2>6, <3>1, <3>6, <3>7
    <2>7. t \in d[i - 1] /\ t \notin LabelOf(d[i - 1], lines[i])
        BY <2>4, <2>5
    <2>8. symAddr[t] = lines[i]
        <3>1. ~(symAddr[t] < lines[i])
            BY <2>4, <2>6, <2>7
        <3> QED
            BY <1>2, <2>3, <2>4, <3>1
    <2>9. PICK x \in d[i - 1] : ~(symAddr[t] <= symAddr[x])
        BY <2>7, <2>8 DEF LabelOf
    <2>10. symAddr[x] < lines[i] /\ symAddr[x] <= symAddr[u]
        <3>1. x \in Syms /\ symAddr[x] \in Nat /\ symAddr[t] \in Nat /\ symAddr[u] \in Nat
            BY <1>2, <2>5
        <3> QED
            BY <2>4, <2>8, <2>9, <3>1
    <2> QED
        BY <2>6, <2>10
<1>6. PICK k \in 1 .. N : symAddr[u] = lines[k]
    <2>1. symAddr[u] <= symAddr[u]
        BY <1>2
    <2> QED
        BY <1>3, <2>1
<1>7. N \in 1 .. N /\ symAddr[u] <= lines[N]
    <2>1. N \in 1 .. N /\ (k < N \/ k = N)
        <3>1. k \in 1 .. N /\ N \in Nat
            BY <1>1
        <3> HIDE DEF N
        <3> QED
            BY <3>1
    <2> QED
        BY <1>2, <1>4, <1>6, <2>1
<1>8. Early(N)
    <2>1. N \notin Bad
        <3> HIDE DEF Bad
        <3> QED
            BY <1>5
    <2> QED
        BY <1>7, <2>1
<1>9. symAddr[u] <= symAddr[u]
    BY <1>2
<1> QED
    BY <1>7, <1>8, <1>9

(* The labels of a listing are right.                                      *)
LEMMA LabelsAreRight ==
    ASSUME symAddr \in [Syms -> MemAddr], NEW lines \in Seq(MemAddr), Rising(lines),
           NEW syms \in SUBSET Syms
    PROVE  RightLabels(lines, syms, Labels(lines, syms), symAddr)
<1>1. PICK d \in [0 .. Len(lines) -> SUBSET syms] :
          Passes(d, lines, syms) /\ Labels(lines, syms) = syms \ d[Len(lines)]
    BY LabelsComputes
<1>2. Len(lines) \in 0 .. Len(lines)
    OBVIOUS
<1>3. \A s \in Labels(lines, syms) : symAddr[s] \in Range(lines)
    BY <1>1, <1>2, LabelsAreOfLines
<1>4. ASSUME NEW u \in syms, symAddr[u] \in Range(lines),
             ~ \E t \in syms : symAddr[t] \notin Range(lines) /\ symAddr[t] < symAddr[u]
      PROVE  u \in Labels(lines, syms)
    <2>1. \A t \in syms : symAddr[t] < symAddr[u] => symAddr[t] \in Range(lines)
        BY <1>4
    <2>2. u \notin d[Len(lines)]
        BY <1>1, <1>4, <2>1, LabelsReach
    <2> QED
        BY <1>1, <2>2
<1> QED
    BY <1>3, <1>4 DEF RightLabels

(* The labels of a listing at work are right for what was found, which     *)
(* stays until the listing is shown.                                       *)
LabelsInv ==
    IF listing.lines = <<>> THEN listing.labels = {}
    ELSE RightLabels(listing.lines, found, listing.labels, symAddr)

(* Every step keeps the labels right.                                      *)
LEMMA StepKeepsLabelsInv ==
    ASSUME CacheInv, CacheInv', ListingInv, LabelsInv, [Next]_listVars
    PROVE  LabelsInv'
<1>1. NoListing.lines = <<>> /\ NoListing.labels = {}
    BY DEF NoListing
<1>2. ASSUME NoOutput
      PROVE  LabelsInv'
    BY <1>1, <1>2 DEF NoOutput, LabelsInv
<1>3. ASSUME NEW point \in MemAddr, NEW n \in Lines, cmd_code(point, n)
      PROVE  LabelsInv'
    <2> DEFINE lines == code_addrs(point, n)
    <2>1. CASE NoOutput
        BY <1>2, <2>1
    <2>2. CASE ~NoOutput
        <3>1. /\ Range(lines) \subseteq MemAddr /\ UNCHANGED <<symAddr, insSize>>
              /\ listing' = IF asked' = Nothing THEN NoListing
                            ELSE [point |-> point, n |-> n, lines |-> lines,
                                  labels |-> Labels(lines, found')]
            BY <1>3, <2>2, Zenon DEF cmd_code, get_symbols
        <3>2. asked' # Nothing
            BY <2>2, <3>1, Zenon DEF NoOutput
        <3>3. point \in Nat /\ n \in Nat /\ insSize \in Layouts
            BY SymbolCacheAssumption, CodeListingAssumption DEF MemAddr, ListingInv
        <3>4. Rising(lines) /\ lines \in Seq(MemAddr) /\ Len(lines) = 2 * n + 1
            BY <3>1, <3>3, LinesRise
        <3>5. symAddr \in [Syms -> MemAddr] /\ found' \in SUBSET Syms
            BY DEF CacheInv, SymInv, SymTypeInv
        <3> HIDE DEF lines
        <3>6. RightLabels(lines, found', Labels(lines, found'), symAddr)
            BY <3>4, <3>5, LabelsAreRight
        <3> DEFINE labels == Labels(lines, found')
        <3> HIDE DEF labels
        <3>7. listing'.lines = lines /\ listing'.labels = labels
            BY <3>1, <3>2 DEF labels
        <3>8. lines # <<>>
            BY <3>3, <3>4
        <3>9. RightLabels(lines, found', labels, symAddr')
            BY <3>1, <3>6 DEF labels
        <3> QED
            BY <3>7, <3>8, <3>9 DEF LabelsInv, RightLabels
    <2> QED
        BY <2>1, <2>2
<1>4. CASE UNCHANGED listVars
    <2>1. UNCHANGED <<found, symAddr, listing>>
        BY <1>4, Zenon DEF listVars, symVars
    <2> QED
        BY <2>1 DEF LabelsInv, RightLabels
<1>5. CASE Spin
    BY <1>4, <1>5 DEF Spin
<1>6. ASSUME NEW start \in MemAddr, cmd_state(start)
      PROVE  NoOutput
    BY <1>6 DEF cmd_state
<1>7. ASSUME NEW s \in Syms, cmd_psym(s)
      PROVE  NoOutput
    BY <1>7 DEF cmd_psym
<1>8. ResolveRefs \/ Shows \/ OtherCall => NoOutput
    BY Zenon DEF ResolveRefs, Shows, OtherCall
<1> QED
    BY <1>2, <1>3, <1>4, <1>5, <1>6, <1>7, <1>8 DEF Next

(* A symbol that starts a line was asked for, so what is missing in the    *)
(* answer is missing in the listing only for the reason RightLabels names. *)
LEMMA LabelsInvComplete ==
    ASSUME CacheInv, ListingInv, LabelsInv
    PROVE  LabelsComplete
<1> DEFINE point == listing.point
           n     == listing.n
           lines == listing.lines
           shown == {symAddr[s] : s \in listing.labels}
<1>1. CASE lines = <<>>
    <2>1. listing.labels = {}
        BY <1>1 DEF LabelsInv
    <2>2. Range(lines) = {}
        <3>1. DOMAIN lines = {}
            BY <1>1
        <3> QED
            BY <3>1 DEF Range
    <2> QED
        BY <2>1, <2>2 DEF LabelsComplete
<1>2. CASE lines # <<>>
    <2>1. /\ insSize \in Layouts /\ point \in MemAddr /\ n \in Lines
          /\ lines = code_addrs(point, n) /\ Range(lines) \subseteq MemAddr
          /\ IsQuestion(lines, asked)
        BY <1>2 DEF ListingInv, IsListing
    <2>2. RightLabels(lines, found, listing.labels, symAddr)
        BY <1>2 DEF LabelsInv
    <2> HIDE DEF point, n, lines
    <2>3. point \in Nat /\ n \in Nat
        BY <2>1, SymbolCacheAssumption, CodeListingAssumption DEF MemAddr
    <2>4. Rising(lines) /\ lines \in Seq(MemAddr) /\ Len(lines) = 2 * n + 1
        BY <2>1, <2>3, LinesRise
    <2>5. ASSUME NEW a \in Range(lines)
          PROVE  InRange(a, asked)
        <3> DEFINE N == Len(lines)
        <3>1. N \in Nat /\ N >= 1 /\ DOMAIN lines = 1 .. N
            BY <2>3, <2>4
        <3>2. PICK i \in 1 .. N : a = lines[i]
            BY <2>5, <3>1 DEF Range
        <3>3. Head(lines) = lines[1] /\ Last(lines) = lines[N]
            BY <2>4, <3>1 DEF Last
        <3>4. \A j \in 1 .. N : lines[j] \in Nat
            BY <2>4, SymbolCacheAssumption DEF MemAddr
        <3>5. \A j, k \in 1 .. N : j < k => lines[j] < lines[k]
            BY <3>1, <2>4 DEF Rising
        <3> HIDE DEF N
        <3>6. 1 \in 1 .. N /\ N \in 1 .. N /\ (1 < i \/ 1 = i) /\ (i < N \/ i = N)
            BY <3>1
        <3>7. lines[1] <= a /\ a <= lines[N]
            BY <3>2, <3>4, <3>5, <3>6
        <3>8. asked.addr = lines[1] /\ asked.size = lines[N] - lines[1] + 1
            BY <2>1, <3>3 DEF IsQuestion
        <3>9. a \in Nat /\ lines[1] \in Nat /\ lines[N] \in Nat
            BY <3>2, <3>4, <3>6
        <3> QED
            BY <3>7, <3>8, <3>9 DEF InRange
    <2>6. shown \subseteq Range(lines)
        BY <2>2 DEF RightLabels
    <2>7. ASSUME NEW s \in Syms \ lost, symAddr[s] \in Range(lines) \ shown
          PROVE  \E t \in found : symAddr[t] \notin Range(lines) /\ symAddr[t] < symAddr[s]
        <3>1. InRange(symAddr[s], asked)
            BY <2>5, <2>7
        <3>2. PICK u \in found : symAddr[u] = symAddr[s]
            BY <3>1 DEF CacheInv, GetSymbolsOnePerAddress
        <3>3. u \notin listing.labels
            BY <2>7, <3>2
        <3>4. \E t \in found : symAddr[t] \notin Range(lines) /\ symAddr[t] < symAddr[u]
            BY <2>2, <2>7, <3>2, <3>3 DEF RightLabels
        <3> QED
            BY <3>2, <3>4
    <2> QED
        BY <2>6, <2>7 DEF LabelsComplete, lines
<1> QED
    BY <1>1, <1>2

(* A label that is missing is missing only behind a symbol inside an       *)
(* instruction (simple-cli-client.cc:623-638).                             *)
THEOREM LabelsStayComplete ==
    Spec => []LabelsComplete
<1>1. Init => ListingInv
    BY DEF Init, ListingInv, NoListing
<1>2. Init => LabelsInv
    BY DEF Init, LabelsInv, NoListing
<1>3. ListingInv /\ [Next]_listVars => ListingInv'
    BY StepKeepsListingInv
<1>4. CacheInv /\ CacheInv' /\ ListingInv /\ LabelsInv /\ [Next]_listVars => LabelsInv'
    BY StepKeepsLabelsInv
<1>5. CacheInv /\ ListingInv /\ LabelsInv => LabelsComplete
    BY LabelsInvComplete
<1> QED
    BY <1>1, <1>2, <1>3, <1>4, <1>5, CacheInvHolds, PTL DEF Spec
=============================================================================
