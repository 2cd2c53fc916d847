------------------------------ MODULE RangeMap ------------------------------
(***************************************************************************)
(* RangeMap<T> of include/odb/utils/range-map.hh: a total map from the     *)
(* keys 0 .. maxKey to values, stored as the sequence of its maximal       *)
(* ranges.  A node [beg, val] covers the keys from beg to the key before   *)
(* the next node's beg.  The debugger keeps in one of these which          *)
(* addresses it already asked the VM's symbols for.                        *)
(***************************************************************************)
EXTENDS Naturals, Sequences, SequencesExt

(* The constructor, for min_key = 0.                                       *)
NewMap(val) == <<[beg |-> 0, val |-> val]>>

(* _find_node: the scan stops before the first node that begins after key. *)
find_node(nodes, key) ==
    CHOOSE i \in DOMAIN nodes :
        /\ \A j \in 2 .. i : key >= nodes[j].beg
        /\ i + 1 \in DOMAIN nodes => key < nodes[i + 1].beg

get(nodes, key) == nodes[find_node(nodes, key)].val

(* The end of the i-th range.                                              *)
EndKey(nodes, i, maxKey) ==
    IF i = Len(nodes) THEN maxKey ELSE nodes[i + 1].beg - 1

(* operator[], with ranges numbered from 1.                                *)
RangeAt(nodes, i, maxKey) ==
    [low |-> nodes[i].beg, high |-> EndKey(nodes, i, maxKey), val |-> nodes[i].val]

range_of(nodes, key, maxKey) == RangeAt(nodes, find_node(nodes, key), maxKey)

(* A node that key is in the middle of is cut in half at key.              *)
CutAt(nodes, key) ==
    LET i == find_node(nodes, key)
    IN  IF nodes[i].beg = key
        THEN nodes
        ELSE InsertAt(nodes, i + 1, [beg |-> key, val |-> nodes[i].val])

(* Mutant of fix: equal neighbours are left side by side.                  *)
MutFix(nodes) == nodes

(* _fix: of neighbours with equal values only the first stays.             *)
fix(nodes) ==
    LET kept[n \in 0 .. Len(nodes)] ==
            IF n = 0 THEN <<>>
            ELSE IF n > 1 /\ Last(kept[n - 1]).val = nodes[n].val THEN kept[n - 1]
                 ELSE Append(kept[n - 1], nodes[n])
    IN  kept[Len(nodes)]

(* Map[low .. high] = val                                                  *)
set(nodes, low, high, val, maxKey) ==
    LET cutLow  == CutAt(nodes, low)
        cut     == IF high # maxKey THEN CutAt(cutLow, high + 1) ELSE cutLow
        first   == find_node(cut, low)
        beyond  == IF high # maxKey THEN find_node(cut, high + 1) ELSE Len(cut) + 1
    IN  fix([i \in DOMAIN cut |->
                IF i \in first .. beyond - 1 THEN [cut[i] EXCEPT !.val = val]
                ELSE cut[i]])
=============================================================================
