--------------------------- MODULE RangeMapProofs ---------------------------
(***************************************************************************)
(* Lemmas about RangeMap, for any keys and values: what a sorted sequence  *)
(* of nodes says of each key, and what set makes of it.                    *)
(***************************************************************************)
EXTENDS RangeMap, SequenceTheorems, WellFoundedInduction, TLAPS

-----------------------------------------------------------------------------
(* Induction, in the form of the least number principle.                   *)
LEMMA LeastNumber ==
    ASSUME NEW T \in SUBSET Nat, T # {}
    PROVE  \E x \in T : \A y \in T : x <= y
<1> DEFINE R == {ss \in Nat \X Nat : ss[1] < ss[2]}
<1>1. IsWellFoundedOn(R, Nat)
    BY NatLessThanWellFounded DEF OpToRel
<1>2. \A x, y \in Nat : x < y => <<x, y>> \in R
    OBVIOUS
<1> HIDE DEF R
<1>3. PICK x \in T : \A y \in T : ~(<<y, x>> \in R)
    BY <1>1, WFMin
<1>4. \A y \in T : ~(y < x)
    BY <1>2, <1>3
<1> QED
    BY <1>4

(* A bounded set of numbers has a greatest one.                            *)
LEMMA GreatestNumber ==
    ASSUME NEW T \in SUBSET Nat, T # {}, NEW b \in Nat, \A x \in T : x <= b
    PROVE  \E x \in T : \A y \in T : x >= y
<1> DEFINE U == {n \in Nat : \A x \in T : x <= n}
<1>1. PICK m \in U : \A n \in U : m <= n
    BY LeastNumber
<1>2. CASE m \in T
    BY <1>1, <1>2
<1>3. CASE m \notin T
    <2>1. \A x \in T : x <= m - 1
        BY <1>1, <1>3
    <2>2. m # 0
        <3>1. PICK x \in T : TRUE
            OBVIOUS
        <3>2. x \in Nat /\ x <= m /\ x # m
            BY <1>1, <1>3
        <3> QED
            BY <3>2
    <2>3. m - 1 \in U
        BY <2>1, <2>2
    <2> QED
        BY <1>1, <2>3
<1> QED
    BY <1>2, <1>3

(* Division with remainder.                                                *)
LEMMA DivMod ==
    ASSUME NEW n \in Nat, NEW m \in Nat \ {0}
    PROVE  /\ n \div m \in Nat /\ n % m \in 0 .. m - 1
           /\ n = m * (n \div m) + (n % m)
OBVIOUS

(* A quotient is as small as its number is.                                *)
LEMMA DivBound ==
    ASSUME NEW n \in Nat, NEW m \in Nat \ {0}, NEW b \in Nat, n <= m * b + (m - 1)
    PROVE  n \div m <= b
<1>1. n \div m \in Nat /\ n % m \in 0 .. m - 1 /\ n = m * (n \div m) + (n % m)
    BY DivMod
<1> DEFINE q == n \div m
           r == n % m
<1> HIDE DEF q, r
<1>2. q \in Nat /\ r \in Nat /\ n = m * q + r
    BY <1>1 DEF q, r
<1>3. SUFFICES ASSUME q >= b + 1 PROVE FALSE
    BY <1>2 DEF q
<1>4. m * q >= m * (b + 1)
    BY <1>2, <1>3
<1>5. m * (b + 1) = m * b + m
    OBVIOUS
<1> QED
    BY <1>2, <1>4, <1>5

(* A number is told by its quotient and its remainder.                     *)
LEMMA DivModUnique ==
    ASSUME NEW m \in Nat \ {0}, NEW a \in Nat, NEW r \in 0 .. m - 1, NEW n, n = m * a + r
    PROVE  n \in Nat /\ n \div m = a /\ n % m = r
<1>1. n \in Nat /\ r \in Nat
    OBVIOUS
<1> DEFINE q == n \div m
           k == n % m
<1>2. q \in Nat /\ k \in 0 .. m - 1 /\ n = m * q + k
    BY <1>1, DivMod
<1> HIDE DEF q, k
<1>3. ~(q > a)
    <2> SUFFICES ASSUME q >= a + 1
                 PROVE  FALSE
        BY <1>2
    <2>1. m * q >= m * (a + 1) /\ m * (a + 1) = m * a + m
        BY <1>2
    <2> QED
        BY <1>2, <2>1
<1>4. ~(a > q)
    <2> SUFFICES ASSUME a >= q + 1
                 PROVE  FALSE
        BY <1>2
    <2>1. m * a >= m * (q + 1) /\ m * (q + 1) = m * q + m
        BY <1>2
    <2> QED
        BY <1>2, <2>1
<1>5. q = a
    BY <1>2, <1>3, <1>4
<1> QED
    BY <1>1, <1>2, <1>5 DEF q, k

(* Recursion: a value and a step function define a sequence of values.     *)
IsStep(F, N, V) == F \in [(1 .. N) \X V -> V]

Iterates(F, v0, m, f) == f[0] = v0 /\ \A n \in 1 .. m : f[n] = F[<<n, f[n - 1]>>]

(* There is such a sequence of values, of any length.                      *)
LEMMA RecursionExists ==
    ASSUME NEW N \in Nat, NEW V, NEW v0 \in V, NEW F, IsStep(F, N, V)
    PROVE  \E f \in [0 .. N -> V] : Iterates(F, v0, N, f)
<1> USE DEF IsStep, Iterates
<1> DEFINE Computes(f, m) == Iterates(F, v0, m, f)
           Missing == {m \in 0 .. N : ~ \E f \in [0 .. m -> V] : Computes(f, m)}
<1>1. CASE Missing = {}
    <2>1. N \in 0 .. N
        OBVIOUS
    <2>2. N \notin Missing
        <3> HIDE DEF Missing
        <3> QED
            BY <1>1
    <2> QED
        BY <2>1, <2>2
<1>2. CASE Missing # {}
    <2>1. PICK m \in Missing : \A n \in Missing : m <= n
        <3>1. Missing \in SUBSET Nat
            OBVIOUS
        <3> HIDE DEF Missing
        <3> QED
            BY <1>2, <3>1, LeastNumber
    <2>2. CASE m = 0
        <3>1. [n \in 0 .. 0 |-> v0] \in [0 .. m -> V]
            BY <2>2
        <3>2. Computes([n \in 0 .. 0 |-> v0], m)
            BY <2>2
        <3> QED
            BY <2>1, <3>1, <3>2
    <2>3. CASE m # 0
        <3>1. m - 1 \in 0 .. N /\ m \in 1 .. N /\ m - 1 \notin Missing
            BY <2>1, <2>3
        <3>2. PICK f \in [0 .. m - 1 -> V] : Computes(f, m - 1)
            BY <3>1
        <3> DEFINE g == [n \in 0 .. m |-> IF n = m THEN F[<<m, f[m - 1]>>] ELSE f[n]]
        <3>3. g \in [0 .. m -> V]
            BY <3>1
        <3>4. \A n \in 0 .. m - 1 : g[n] = f[n]
            BY <3>1
        <3>5. g[m] = F[<<m, f[m - 1]>>]
            BY <3>1
        <3> HIDE DEF g
        <3>6. Computes(g, m)
            <4>1. g[0] = v0
                BY <3>1, <3>2, <3>4
            <4>2. ASSUME NEW n \in 1 .. m
                  PROVE  g[n] = F[<<n, g[n - 1]>>]
                <5>1. CASE n = m
                    <6>1. g[m - 1] = f[m - 1]
                        BY <3>1, <3>4
                    <6> QED
                        BY <3>5, <5>1, <6>1
                <5>2. CASE n # m
                    <6>1. n \in 1 .. m - 1 /\ n \in 0 .. m - 1 /\ n - 1 \in 0 .. m - 1
                        BY <3>1, <5>2
                    <6> QED
                        BY <3>2, <3>4, <6>1
                <5> QED
                    BY <5>1, <5>2
            <4> QED
                BY <4>1, <4>2
        <3> QED
            BY <2>1, <3>3, <3>6
    <2> QED
        BY <2>2, <2>3
<1> QED
    BY <1>1, <1>2

(* The equations of a recursion, as far as its values have their type.     *)
Obeys(F, v0, N, V, g) ==
    g[0] = v0 /\ \A i \in 1 .. N : g[i - 1] \in V => g[i] = F[<<i, g[i - 1]>>]

Typed(N, V, g) == \A i \in 0 .. N : g[i] \in V

(* What satisfies the equations of a recursion has its type.               *)
LEMMA RecursionTyped ==
    ASSUME NEW N \in Nat, NEW V, NEW v0 \in V, NEW F, IsStep(F, N, V),
           NEW g, Obeys(F, v0, N, V, g)
    PROVE  Typed(N, V, g)
<1> USE DEF Obeys, Typed
<1> DEFINE Bad == {i \in 0 .. N : g[i] \notin V}
<1> SUFFICES ASSUME Bad # {}
             PROVE  FALSE
    OBVIOUS
<1>1. Bad \in SUBSET Nat
    OBVIOUS
<1>2. PICK i \in Bad : \A k \in Bad : i <= k
    <2> HIDE DEF Bad
    <2> QED
        BY <1>1, LeastNumber
<1>3. i \in 1 .. N /\ i - 1 \in 0 .. N /\ i - 1 \notin Bad
    BY <1>2
<1>4. g[i - 1] \in V
    BY <1>3
<1>5. g[i] = F[<<i, g[i - 1]>>]
    BY <1>3, <1>4
<1>6. F[<<i, g[i - 1]>>] \in V
    BY <1>3, <1>4 DEF IsStep
<1> QED
    BY <1>2, <1>5, <1>6

-----------------------------------------------------------------------------
(* The nodes of a RangeMap: the first one begins at 0, and they are in the *)
(* order of their keys, all of them inside the map.                        *)
Node(V) == [beg : Nat, val : V]

Increasing(nodes) == \A i, j \in DOMAIN nodes : i < j => nodes[i].beg < nodes[j].beg

IsMap(nodes, V, maxKey) ==
    /\ nodes \in Seq(Node(V)) /\ Len(nodes) > 0
    /\ nodes[1].beg = 0
    /\ Increasing(nodes)
    /\ \A i \in DOMAIN nodes : nodes[i].beg <= maxKey

(* No two neighbours have the same value: the ranges are maximal.          *)
Maximal(nodes) == \A i \in 1 .. Len(nodes) - 1 : nodes[i].val # nodes[i + 1].val

(* The i-th node is the one of a key.                                      *)
Covers(nodes, i, key) ==
    /\ i \in DOMAIN nodes /\ nodes[i].beg <= key
    /\ i + 1 \in DOMAIN nodes => key < nodes[i + 1].beg

(* Does a node begin at the key?                                           *)
Begins(nodes, key) == \E i \in DOMAIN nodes : nodes[i].beg = key

SameValues(nodes, other) == \A key \in Nat : get(other, key) = get(nodes, key)

(* The shape of the nodes.                                                 *)
LEMMA NodesOf ==
    ASSUME NEW V, NEW maxKey, NEW nodes, IsMap(nodes, V, maxKey)
    PROVE  /\ DOMAIN nodes = 1 .. Len(nodes) /\ Len(nodes) \in Nat /\ Len(nodes) > 0
           /\ \A i \in DOMAIN nodes : /\ nodes[i] \in Node(V)
                                       /\ nodes[i].beg \in Nat /\ nodes[i].val \in V
<1>1. /\ DOMAIN nodes = 1 .. Len(nodes) /\ Len(nodes) \in Nat /\ Len(nodes) > 0
      /\ \A i \in DOMAIN nodes : nodes[i] \in Node(V)
    BY DEF IsMap
<1>2. \A x \in Node(V) : x.beg \in Nat /\ x.val \in V
    BY DEF Node
<1> QED
    BY <1>1, <1>2

(* One node covers a key, and _find_node finds it.                         *)
LEMMA FindNode ==
    ASSUME NEW V, NEW maxKey \in Nat, NEW nodes, IsMap(nodes, V, maxKey), NEW key \in Nat
    PROVE  /\ Covers(nodes, find_node(nodes, key), key)
           /\ \A i : Covers(nodes, i, key) => i = find_node(nodes, key)
<1>1. /\ DOMAIN nodes = 1 .. Len(nodes) /\ Len(nodes) \in Nat /\ Len(nodes) > 0
      /\ \A i \in DOMAIN nodes : nodes[i].beg \in Nat
    BY NodesOf
<1> DEFINE Scan(i) == /\ \A j \in 2 .. i : key >= nodes[j].beg
                      /\ i + 1 \in DOMAIN nodes => key < nodes[i + 1].beg
           Stops == {i \in DOMAIN nodes : i + 1 \in DOMAIN nodes => key < nodes[i + 1].beg}
<1>2. \E i \in DOMAIN nodes : Scan(i)
    <2>1. Stops \in SUBSET Nat
        BY <1>1
    <2>2. Len(nodes) \in Stops
        BY <1>1
    <2>3. PICK i \in Stops : \A j \in Stops : i <= j
        <3> HIDE DEF Stops
        <3> QED
            BY <2>1, <2>2, LeastNumber
    <2>4. ASSUME NEW j \in 2 .. i
          PROVE  key >= nodes[j].beg
        <3>0. i \in 1 .. Len(nodes)
            BY <1>1
        <3>1. j - 1 \in DOMAIN nodes /\ j \in DOMAIN nodes /\ ~(i <= j - 1)
            BY <1>1, <3>0
        <3>4. j - 1 \notin Stops
            BY <2>3, <3>1
        <3>2. ~(key < nodes[j - 1 + 1].beg)
            BY <3>1, <3>4
        <3>3. j - 1 + 1 = j
            OBVIOUS
        <3> QED
            BY <1>1, <3>1, <3>2, <3>3
    <2> QED
        BY <2>3, <2>4
<1>3. find_node(nodes, key) \in DOMAIN nodes /\ Scan(find_node(nodes, key))
    BY <1>2 DEF find_node
<1>4. Covers(nodes, find_node(nodes, key), key)
    <2> DEFINE f == find_node(nodes, key)
    <2>1. CASE f = 1
        BY <1>1, <1>3, <2>1 DEF Covers, IsMap
    <2>2. CASE f # 1
        <3>1. f \in 2 .. f
            BY <1>1, <1>3, <2>2
        <3> QED
            BY <1>1, <1>3, <3>1 DEF Covers
    <2> QED
        BY <2>1, <2>2
<1>5. ASSUME NEW i, NEW j, Covers(nodes, i, key), Covers(nodes, j, key), i < j
      PROVE  FALSE
    <2>1. i \in 1 .. Len(nodes) /\ j \in 1 .. Len(nodes)
        BY <1>1, <1>5 DEF Covers
    <2>2. i + 1 \in DOMAIN nodes /\ (i + 1 = j \/ i + 1 < j)
        BY <1>1, <1>5, <2>1
    <2>3. nodes[i + 1].beg <= nodes[j].beg
        <3>1. \A a, b \in DOMAIN nodes : a < b => nodes[a].beg < nodes[b].beg
            BY DEF IsMap, Increasing
        <3>2. j \in DOMAIN nodes /\ nodes[i + 1].beg \in Nat /\ nodes[j].beg \in Nat
            BY <1>1, <2>1, <2>2
        <3> QED
            BY <2>2, <3>1, <3>2
    <2> QED
        BY <1>1, <1>5, <2>2, <2>3 DEF Covers
<1>6. ASSUME NEW i, Covers(nodes, i, key)
      PROVE  i = find_node(nodes, key)
    <2>1. i \in Nat /\ find_node(nodes, key) \in Nat
        BY <1>1, <1>4, <1>6 DEF Covers
    <2> QED
        BY <1>4, <1>5, <1>6, <2>1
<1> QED
    BY <1>4, <1>6

(* So get is the value of the node that covers the key.                    *)
LEMMA GetCovered ==
    ASSUME NEW V, NEW maxKey \in Nat, NEW nodes, IsMap(nodes, V, maxKey), NEW key \in Nat,
           NEW i, Covers(nodes, i, key)
    PROVE  get(nodes, key) = nodes[i].val
BY FindNode DEF get

-----------------------------------------------------------------------------
(* r is s with e inserted at position i.                                   *)
HasInserted(S, s, i, e, r) ==
    /\ r \in Seq(S) /\ Len(r) = Len(s) + 1
    /\ \A k \in 1 .. Len(s) + 1 :
          r[k] = IF k < i THEN s[k] ELSE IF k = i THEN e ELSE s[k - 1]

(* The elements of a sequence with one more inserted.                      *)
LEMMA Inserted ==
    ASSUME NEW S, NEW s \in Seq(S), NEW e \in S, NEW i \in 1 .. Len(s) + 1
    PROVE  HasInserted(S, s, i, e, InsertAt(s, i, e))
<1> DEFINE low == SubSeq(s, 1, i - 1)
           high == SubSeq(s, i, Len(s))
<1>1. /\ low \in Seq(S) /\ Len(low) = i - 1
      /\ \A k \in 1 .. i - 1 : low[k] = s[k]
    OBVIOUS
<1>2. /\ high \in Seq(S) /\ Len(high) = Len(s) - i + 1
      /\ \A k \in 1 .. Len(s) - i + 1 : high[k] = s[i + k - 1]
    OBVIOUS
<1>3. InsertAt(s, i, e) = low \o <<e>> \o high
    BY DEF InsertAt
<1> HIDE DEF low, high
<1> DEFINE mid == low \o <<e>>
<1>4. /\ mid \in Seq(S) /\ Len(mid) = i
      /\ \A k \in 1 .. i : mid[k] = IF k < i THEN s[k] ELSE e
    BY <1>1
<1> HIDE DEF mid
<1>5. /\ mid \o high \in Seq(S) /\ Len(mid \o high) = Len(s) + 1
      /\ \A k \in 1 .. Len(s) + 1 :
            (mid \o high)[k] = IF k <= i THEN mid[k] ELSE high[k - i]
    <2>1. Len(mid) + Len(high) = Len(s) + 1
        BY <1>2, <1>4
    <2>2. /\ mid \o high \in Seq(S) /\ Len(mid \o high) = Len(mid) + Len(high)
          /\ \A k \in 1 .. Len(mid) + Len(high) :
                (mid \o high)[k] = IF k <= Len(mid) THEN mid[k] ELSE high[k - Len(mid)]
        BY <1>2, <1>4, ConcatProperties, Zenon
    <2> QED
        BY <1>4, <2>1, <2>2, Zenon
<1>6. InsertAt(s, i, e) = mid \o high
    BY <1>3 DEF mid
<1>7. ASSUME NEW k \in 1 .. Len(s) + 1
      PROVE  (mid \o high)[k]
             = IF k < i THEN s[k] ELSE IF k = i THEN e ELSE s[k - 1]
    <2>1. CASE k <= i
        BY <1>4, <1>5, <2>1
    <2>2. CASE k > i
        <3>1. k - i \in 1 .. Len(s) - i + 1 /\ i + (k - i) - 1 = k - 1
            BY <2>2
        <3>2. high[k - i] = s[k - 1]
            BY <1>2, <3>1
        <3> QED
            BY <1>5, <2>2, <3>2
    <2>3. k <= i \/ k > i
        OBVIOUS
    <2> QED
        BY <2>1, <2>2, <2>3
<1> QED
    BY <1>5, <1>6, <1>7 DEF HasInserted

(* Cutting a node in half changes the value of no key, and afterwards a    *)
(* node begins at the key that was asked for.                              *)
LEMMA Cut ==
    ASSUME NEW V, NEW maxKey \in Nat, NEW nodes, IsMap(nodes, V, maxKey),
           NEW key \in 0 .. maxKey
    PROVE  /\ IsMap(CutAt(nodes, key), V, maxKey)
           /\ SameValues(nodes, CutAt(nodes, key))
           /\ Begins(CutAt(nodes, key), key)
           /\ \A b : Begins(nodes, b) => Begins(CutAt(nodes, key), b)
<1> DEFINE f == find_node(nodes, key)
           e == [beg |-> key, val |-> nodes[f].val]
           cut == InsertAt(nodes, f + 1, e)
<1>1. Covers(nodes, f, key)
    BY FindNode
<1>2. /\ DOMAIN nodes = 1 .. Len(nodes) /\ Len(nodes) \in Nat /\ Len(nodes) > 0
      /\ \A i \in DOMAIN nodes : nodes[i] \in Node(V) /\ nodes[i].beg \in Nat
                                 /\ nodes[i].val \in V
    BY NodesOf
<1>3. f \in 1 .. Len(nodes) /\ nodes[f].beg <= key
      /\ (f + 1 \in DOMAIN nodes => key < nodes[f + 1].beg)
    BY <1>1, <1>2 DEF Covers
<1>4. CASE nodes[f].beg = key
    <2>1. CutAt(nodes, key) = nodes
        BY <1>4 DEF CutAt
    <2> QED
        BY <1>2, <1>3, <1>4, <2>1 DEF SameValues, Begins
<1>5. CASE nodes[f].beg # key
    <2>1. CutAt(nodes, key) = cut
        BY <1>5 DEF CutAt
    <2>2. e \in Node(V) /\ e.beg = key /\ e.val = nodes[f].val
        BY <1>2, <1>3 DEF Node
    <2>3. f + 1 \in 1 .. Len(nodes) + 1 /\ nodes \in Seq(Node(V))
        BY <1>2, <1>3 DEF IsMap
    <2> HIDE DEF e, f
    <2>4. /\ cut \in Seq(Node(V)) /\ Len(cut) = Len(nodes) + 1
          /\ \A k \in 1 .. Len(nodes) + 1 :
                cut[k] = IF k < f + 1 THEN nodes[k] ELSE IF k = f + 1 THEN e ELSE nodes[k - 1]
        <3> DEFINE p == f + 1
                   N == Node(V)
        <3>1. nodes \in Seq(N) /\ e \in N /\ p \in 1 .. Len(nodes) + 1
            BY <2>2, <2>3
        <3> HIDE DEF p, N
        <3>2. HasInserted(N, nodes, p, e, InsertAt(nodes, p, e))
            BY <3>1, Inserted
        <3>3. HasInserted(Node(V), nodes, f + 1, e, cut)
            BY <3>2 DEF p, N
        <3> QED
            BY <3>3, Zenon DEF HasInserted
    <2> HIDE DEF cut
    <2>5. DOMAIN cut = 1 .. Len(nodes) + 1
        BY <1>2, <2>4
    <2>6. /\ \A k \in 1 .. f : cut[k] = nodes[k]
          /\ cut[f + 1] = e
          /\ \A k \in f + 1 .. Len(nodes) : cut[k + 1] = nodes[k]
        BY <1>2, <1>3, <2>4
    <2>7. \A i, j \in DOMAIN nodes : i < j => nodes[i].beg < nodes[j].beg
        BY DEF IsMap, Increasing
    <2>8. \A i \in 1 .. f : nodes[i].beg < key
        BY <1>2, <1>3, <1>5, <2>7
    <2>9. \A i \in f + 1 .. Len(nodes) : key < nodes[i].beg
        <3> TAKE i \in f + 1 .. Len(nodes)
        <3>1. f + 1 \in DOMAIN nodes /\ i \in DOMAIN nodes /\ (i = f + 1 \/ f + 1 < i)
            BY <1>2, <1>3
        <3> QED
            BY <1>2, <1>3, <2>7, <3>1
    <2>10. Increasing(cut)
        <3> SUFFICES ASSUME NEW i \in 1 .. Len(nodes) + 1, NEW j \in 1 .. Len(nodes) + 1, i < j
                     PROVE  cut[i].beg < cut[j].beg
            BY <2>5 DEF Increasing
        <3>1. CASE j <= f
            <4>1. i \in 1 .. f /\ j \in 1 .. f /\ i \in DOMAIN nodes /\ j \in DOMAIN nodes
                BY <1>2, <1>3, <3>1
            <4> QED
                BY <2>6, <2>7, <4>1
        <3>2. CASE j = f + 1
            BY <1>2, <1>3, <2>2, <2>6, <2>8, <3>2
        <3>3. CASE j > f + 1
            <4>1. j - 1 \in f + 1 .. Len(nodes) /\ j - 1 + 1 = j /\ j - 1 \in DOMAIN nodes
                BY <1>2, <1>3, <3>3
            <4>2. cut[j] = nodes[j - 1]
                BY <2>6, <4>1
            <4>3. CASE i <= f
                <5>1. i \in 1 .. f /\ i \in DOMAIN nodes /\ i < j - 1
                    BY <1>2, <1>3, <3>3, <4>3
                <5> QED
                    BY <2>6, <2>7, <4>1, <4>2, <5>1
            <4>4. CASE i = f + 1
                BY <2>2, <2>6, <2>9, <4>1, <4>2, <4>4
            <4>5. CASE i > f + 1
                <5>1. i - 1 \in f + 1 .. Len(nodes) /\ i - 1 + 1 = i /\ i - 1 \in DOMAIN nodes
                      /\ i - 1 < j - 1
                    BY <1>2, <1>3, <4>1, <4>5
                <5> QED
                    BY <2>6, <2>7, <4>1, <4>2, <5>1
            <4> QED
                BY <1>3, <4>3, <4>4, <4>5
        <3> QED
            BY <1>3, <3>1, <3>2, <3>3
    <2>11. \A i \in 1 .. Len(nodes) + 1 : cut[i].beg <= maxKey
        <3> TAKE i \in 1 .. Len(nodes) + 1
        <3>1. CASE i <= f
            BY <1>2, <1>3, <2>6, <3>1 DEF IsMap
        <3>2. CASE i = f + 1
            BY <2>2, <2>6, <3>2
        <3>3. CASE i > f + 1
            <4>1. i - 1 \in f + 1 .. Len(nodes) /\ i - 1 + 1 = i /\ i - 1 \in DOMAIN nodes
                BY <1>2, <1>3, <3>3
            <4> QED
                BY <2>6, <4>1 DEF IsMap
        <3> QED
            BY <1>3, <3>1, <3>2, <3>3
    <2>12. IsMap(cut, V, maxKey)
        <3>1. cut[1].beg = 0 /\ Len(cut) > 0
            BY <1>2, <1>3, <2>4, <2>6 DEF IsMap
        <3> QED
            BY <2>4, <2>5, <2>10, <2>11, <3>1 DEF IsMap
    <2>13. ASSUME NEW k \in Nat
           PROVE  get(cut, k) = get(nodes, k)
        <3> DEFINE i == find_node(nodes, k)
        <3>1. Covers(nodes, i, k) /\ get(nodes, k) = nodes[i].val
            BY FindNode DEF get
        <3>2. i \in 1 .. Len(nodes) /\ nodes[i].beg <= k
              /\ (i + 1 \in 1 .. Len(nodes) => k < nodes[i + 1].beg)
            BY <1>2, <3>1 DEF Covers
        <3> HIDE DEF i
        <3>3. CASE i < f
            <4>1. i \in 1 .. f /\ i + 1 \in 1 .. f /\ i + 1 \in 1 .. Len(nodes)
                BY <1>2, <1>3, <3>2, <3>3
            <4>2. Covers(cut, i, k) /\ cut[i].val = nodes[i].val
                BY <1>2, <2>5, <2>6, <3>2, <4>1 DEF Covers
            <4> QED
                BY <2>12, <3>1, <4>2, GetCovered
        <3>4. CASE i = f /\ k < key
            <4>1. f \in 1 .. f /\ f \in 1 .. Len(nodes) + 1
                BY <1>2, <1>3
            <4>2. Covers(cut, i, k) /\ cut[i].val = nodes[i].val
                BY <2>2, <2>5, <2>6, <3>2, <3>4, <4>1 DEF Covers
            <4> QED
                BY <2>12, <3>1, <4>2, GetCovered
        <3>5. CASE i = f /\ key <= k
            <4>1. cut[f + 1].beg <= k /\ cut[f + 1].val = nodes[f].val
                BY <2>2, <2>6, <3>5
            <4>2. f + 1 + 1 \in DOMAIN cut => f + 1 \in f + 1 .. Len(nodes)
                BY <1>2, <1>3, <2>5
            <4>3. f + 1 + 1 \in DOMAIN cut => k < cut[f + 1 + 1].beg
                BY <1>2, <2>6, <3>2, <3>5, <4>2
            <4>4. Covers(cut, f + 1, k)
                BY <1>2, <1>3, <2>5, <4>1, <4>3 DEF Covers
            <4> QED
                BY <2>12, <3>1, <3>5, <4>1, <4>4, GetCovered
        <3>6. CASE i > f
            <4>1. i \in f + 1 .. Len(nodes) /\ i + 1 \in DOMAIN cut
                BY <1>2, <1>3, <2>5, <3>2, <3>6
            <4>2. i + 1 + 1 \in DOMAIN cut => i + 1 \in f + 1 .. Len(nodes)
                BY <1>2, <1>3, <2>5, <4>1
            <4>3. cut[i + 1] = nodes[i]
                BY <2>6, <4>1
            <4>4. i + 1 + 1 \in DOMAIN cut => k < cut[i + 1 + 1].beg
                BY <1>2, <2>6, <3>2, <4>2
            <4>5. Covers(cut, i + 1, k)
                BY <3>2, <4>1, <4>3, <4>4 DEF Covers
            <4> QED
                BY <2>12, <3>1, <4>3, <4>5, GetCovered
        <3> QED
            BY <1>3, <3>2, <3>3, <3>4, <3>5, <3>6
    <2>14. \E i \in DOMAIN cut : cut[i].beg = key
        BY <1>2, <1>3, <2>2, <2>5, <2>6
    <2>15. ASSUME NEW i \in DOMAIN nodes
           PROVE  \E j \in DOMAIN cut : cut[j].beg = nodes[i].beg
        <3>1. CASE i <= f
            BY <1>2, <1>3, <2>5, <2>6, <3>1
        <3>2. CASE i > f
            <4>1. i \in f + 1 .. Len(nodes) /\ i + 1 \in DOMAIN cut
                BY <1>2, <1>3, <2>5, <3>2
            <4> QED
                BY <2>6, <4>1
        <3> QED
            BY <1>2, <1>3, <3>1, <3>2
    <2> QED
        BY <2>1, <2>12, <2>13, <2>14, <2>15 DEF SameValues, Begins
<1> QED
    BY <1>4, <1>5

-----------------------------------------------------------------------------
(* The recursive function that fix computes with.                          *)
IsKept(nodes, kept) ==
    kept = [n \in 0 .. Len(nodes) |->
              IF n = 0 THEN <<>>
              ELSE IF n > 1 /\ Last(kept[n - 1]).val = nodes[n].val THEN kept[n - 1]
                   ELSE Append(kept[n - 1], nodes[n])]

(* It is well defined.                                                     *)
LEMMA FixComputes ==
    ASSUME NEW S, NEW nodes \in Seq(S)
    PROVE  \E kept : IsKept(nodes, kept) /\ fix(nodes) = kept[Len(nodes)]
<1> DEFINE N == Len(nodes)
           F == [x \in (1 .. N) \X Seq(S) |->
                   IF x[1] > 1 /\ Last(x[2]).val = nodes[x[1]].val THEN x[2]
                   ELSE Append(x[2], nodes[x[1]])]
<1>1. N \in Nat /\ <<>> \in Seq(S)
    OBVIOUS
<1>2. F \in [(1 .. N) \X Seq(S) -> Seq(S)]
    <2>1. \A x \in (1 .. N) \X Seq(S) : nodes[x[1]] \in S /\ x[2] \in Seq(S)
        OBVIOUS
    <2>2. \A q \in Seq(S), e \in S : Append(q, e) \in Seq(S)
        OBVIOUS
    <2> QED
        BY <2>1, <2>2, Zenon
<1>3. \A n \in 1 .. N, q \in Seq(S) :
         F[<<n, q>>] = IF n > 1 /\ Last(q).val = nodes[n].val THEN q
                       ELSE Append(q, nodes[n])
    OBVIOUS
<1> HIDE DEF N, F
<1>4. PICK f \in [0 .. N -> Seq(S)] :
         f[0] = <<>> /\ \A n \in 1 .. N : f[n] = F[<<n, f[n - 1]>>]
    <2> DEFINE Q == Seq(S)
               q0 == <<>>
    <2>1. N \in Nat /\ q0 \in Q /\ IsStep(F, N, Q)
        BY <1>1, <1>2 DEF IsStep
    <2> HIDE DEF Q, q0
    <2>2. \E f \in [0 .. N -> Q] : Iterates(F, q0, N, f)
        BY <2>1, RecursionExists
    <2> QED
        BY <2>2 DEF Q, q0, Iterates
<1>5. ASSUME NEW n \in 1 .. N
      PROVE  f[n] = IF n > 1 /\ Last(f[n - 1]).val = nodes[n].val THEN f[n - 1]
                    ELSE Append(f[n - 1], nodes[n])
    <2>1. f[n - 1] \in Seq(S)
        <3>1. n - 1 \in 0 .. N
            BY <1>1
        <3> QED
            BY <3>1
    <2> QED
        BY <1>3, <1>4, <2>1, Zenon
<1>6. IsKept(nodes, f)
    <2> DEFINE g == [n \in 0 .. N |->
              IF n = 0 THEN <<>>
              ELSE IF n > 1 /\ Last(f[n - 1]).val = nodes[n].val THEN f[n - 1]
                   ELSE Append(f[n - 1], nodes[n])]
    <2>1. ASSUME NEW n \in 0 .. N
          PROVE  f[n] = g[n]
        <3>1. CASE n = 0
            BY <1>4, <3>1
        <3>2. CASE n # 0
            <4>1. n \in 1 .. N
                BY <1>1, <3>2
            <4> QED
                BY <1>5, <3>2, <4>1, Zenon
        <3> QED
            BY <3>1, <3>2
    <2>2. DOMAIN g = 0 .. N /\ g = [n \in 0 .. N |-> g[n]]
        OBVIOUS
    <2>3. f = g
        <3> HIDE DEF g
        <3> QED
            BY <2>1, <2>2
    <2> QED
        BY <2>3, Zenon DEF IsKept, N
<1> DEFINE k == CHOOSE kept : IsKept(nodes, kept)
<1>7. IsKept(nodes, k)
    BY <1>6
<1>8. fix(nodes) = k[Len(nodes)]
    BY DEF fix, IsKept
<1> QED
    BY <1>7, <1>8

(* What the first n nodes say of a key.                                    *)
CoversOf(nodes, n, i, key) ==
    /\ i \in 1 .. n /\ nodes[i].beg <= key
    /\ i < n => key < nodes[i + 1].beg

(* A merged sequence q says the same as the first n nodes, and has no two  *)
(* neighbours of one value.                                                *)
Merged(nodes, n, V, maxKey, q) ==
    /\ IsMap(q, V, maxKey) /\ Maximal(q)
    /\ Last(q).val = nodes[n].val /\ Last(q).beg <= nodes[n].beg
    /\ \A key \in Nat : \A i \in 1 .. n : CoversOf(nodes, n, i, key) =>
          \E j \in DOMAIN q : Covers(q, j, key) /\ q[j].val = nodes[i].val

(* One more node with the value of the last is left out.                   *)
LEMMA MergeEqual ==
    ASSUME NEW V, NEW maxKey \in Nat, NEW nodes, IsMap(nodes, V, maxKey),
           NEW n \in 1 .. Len(nodes) - 1, NEW q, Merged(nodes, n, V, maxKey, q),
           Last(q).val = nodes[n + 1].val
    PROVE  Merged(nodes, n + 1, V, maxKey, q)
<1>1. /\ DOMAIN nodes = 1 .. Len(nodes) /\ Len(nodes) \in Nat
      /\ \A i \in DOMAIN nodes : nodes[i].beg \in Nat
    BY NodesOf
<1>2. n \in DOMAIN nodes /\ n + 1 \in DOMAIN nodes /\ n \in 1 .. n
    BY <1>1
<1>3. nodes[n].beg < nodes[n + 1].beg
    BY <1>1, <1>2 DEF IsMap, Increasing
<1>4. nodes[n].val = nodes[n + 1].val
    BY DEF Merged
<1>5. ASSUME NEW key \in Nat, NEW i \in 1 .. n + 1, CoversOf(nodes, n + 1, i, key)
      PROVE  \E j \in DOMAIN q : Covers(q, j, key) /\ q[j].val = nodes[i].val
    <2>1. CASE i = n + 1
        <3>1. CoversOf(nodes, n, n, key)
            BY <1>1, <1>2, <1>3, <1>5, <2>1 DEF CoversOf
        <3>2. \E j \in DOMAIN q : Covers(q, j, key) /\ q[j].val = nodes[n].val
            BY <1>2, <3>1 DEF Merged
        <3> QED
            BY <1>4, <2>1, <3>2
    <2>2. CASE i # n + 1
        <3>1. i \in 1 .. n /\ CoversOf(nodes, n, i, key)
            BY <1>1, <1>2, <1>5, <2>2 DEF CoversOf
        <3> QED
            BY <3>1 DEF Merged
    <2> QED
        BY <2>1, <2>2
<1>6. \A i \in DOMAIN q : q[i].beg \in Nat
    BY NodesOf DEF Merged
<1>7. Last(q).beg <= nodes[n + 1].beg
    <2>1. Len(q) \in DOMAIN q
        BY NodesOf DEF Merged
    <2> QED
        BY <1>1, <1>2, <1>3, <1>6, <2>1 DEF Merged, Last
<1> QED
    BY <1>5, <1>7 DEF Merged

(* One with another value is kept.                                         *)
LEMMA MergeOther ==
    ASSUME NEW V, NEW maxKey \in Nat, NEW nodes, IsMap(nodes, V, maxKey),
           NEW n \in 1 .. Len(nodes) - 1, NEW q, Merged(nodes, n, V, maxKey, q),
           Last(q).val # nodes[n + 1].val
    PROVE  Merged(nodes, n + 1, V, maxKey, Append(q, nodes[n + 1]))
<1> DEFINE e == nodes[n + 1]
           r == Append(q, e)
           m == Len(q)
<1>1. /\ DOMAIN nodes = 1 .. Len(nodes) /\ Len(nodes) \in Nat
      /\ \A i \in DOMAIN nodes : nodes[i] \in Node(V) /\ nodes[i].beg \in Nat
    BY NodesOf
<1>2. n \in DOMAIN nodes /\ n + 1 \in DOMAIN nodes /\ n \in 1 .. n
    BY <1>1
<1>3. nodes[n].beg < e.beg /\ e.beg <= maxKey /\ e.beg \in Nat /\ e \in Node(V)
    BY <1>1, <1>2 DEF IsMap, Increasing
<1>4. IsMap(q, V, maxKey)
    BY DEF Merged
<1>5. /\ DOMAIN q = 1 .. m /\ m \in Nat /\ m > 0 /\ q \in Seq(Node(V))
      /\ \A i \in 1 .. m : q[i].beg \in Nat
    BY <1>4, NodesOf DEF IsMap
<1>6. /\ r \in Seq(Node(V)) /\ Len(r) = m + 1 /\ DOMAIN r = 1 .. m + 1
      /\ \A i \in 1 .. m : r[i] = q[i]
      /\ r[m + 1] = e
    <2> DEFINE N == Node(V)
    <2>1. q \in Seq(N) /\ e \in N
        BY <1>3, <1>5
    <2> HIDE DEF N, e
    <2>2. /\ r \in Seq(N) /\ Len(r) = m + 1 /\ DOMAIN r = 1 .. m + 1
          /\ \A i \in 1 .. m : r[i] = q[i]
          /\ r[m + 1] = e
        BY <2>1
    <2> QED
        BY <2>2 DEF N
<1>7. q[m].beg < e.beg /\ q[m].val # e.val
    BY <1>1, <1>2, <1>3, <1>5 DEF Merged, Last
<1> HIDE DEF r, e, m
<1>8. \A i, j \in 1 .. m : i < j => q[i].beg < q[j].beg
    BY <1>4, <1>5 DEF IsMap, Increasing
<1>9. \A i \in 1 .. m : q[i].beg < e.beg
    <2> TAKE i \in 1 .. m
    <2>1. m \in 1 .. m /\ (i = m \/ i < m)
        BY <1>5
    <2> QED
        BY <1>3, <1>5, <1>7, <1>8, <2>1
<1>10. Increasing(r)
    <2> SUFFICES ASSUME NEW i \in 1 .. m + 1, NEW j \in 1 .. m + 1, i < j
                 PROVE  r[i].beg < r[j].beg
        BY <1>6 DEF Increasing
    <2>1. i \in 1 .. m /\ r[i] = q[i] /\ (j \in 1 .. m \/ j = m + 1)
        BY <1>5, <1>6
    <2> QED
        BY <1>6, <1>8, <1>9, <2>1
<1>11. IsMap(r, V, maxKey)
    <2>1. r[1].beg = 0 /\ Len(r) > 0
        BY <1>4, <1>5, <1>6 DEF IsMap
    <2>2. \A i \in 1 .. m + 1 : r[i].beg <= maxKey
        <3> TAKE i \in 1 .. m + 1
        <3>1. i \in 1 .. m \/ i = m + 1
            BY <1>5
        <3> QED
            BY <1>3, <1>4, <1>5, <1>6, <3>1 DEF IsMap
    <2> QED
        BY <1>6, <1>10, <2>1, <2>2 DEF IsMap
<1>12. Maximal(r)
    <2> SUFFICES ASSUME NEW i \in 1 .. m
                 PROVE  r[i].val # r[i + 1].val
        BY <1>5, <1>6 DEF Maximal
    <2>1. CASE i = m
        BY <1>5, <1>6, <1>7, <2>1
    <2>2. CASE i # m
        <3>1. i \in 1 .. m - 1 /\ i + 1 \in 1 .. m
            BY <1>5, <2>2
        <3>2. q[i].val # q[i + 1].val
            BY <3>1 DEF Merged, Maximal, m
        <3> QED
            BY <1>6, <3>1, <3>2
    <2> QED
        BY <2>1, <2>2
<1>13. ASSUME NEW key \in Nat, NEW i \in 1 .. n + 1, CoversOf(nodes, n + 1, i, key)
       PROVE  \E j \in DOMAIN r : Covers(r, j, key) /\ r[j].val = nodes[i].val
    <2>1. CASE i = n + 1
        <3>1. Covers(r, m + 1, key) /\ r[m + 1].val = nodes[i].val
            BY <1>5, <1>6, <1>13, <2>1 DEF Covers, CoversOf, e
        <3>2. m + 1 \in DOMAIN r
            BY <1>5, <1>6
        <3> QED
            BY <3>1, <3>2
    <2>2. CASE i # n + 1
        <3>1. i \in 1 .. n /\ i + 1 \in DOMAIN nodes /\ CoversOf(nodes, n, i, key)
              /\ key < nodes[i + 1].beg
            BY <1>1, <1>2, <1>13, <2>2 DEF CoversOf
        <3>2. key < e.beg
            <4>1. i + 1 = n + 1 \/ i + 1 < n + 1
                BY <3>1
            <4>2. i + 1 < n + 1 => nodes[i + 1].beg < nodes[n + 1].beg
                BY <1>2, <3>1 DEF IsMap, Increasing
            <4> QED
                BY <1>1, <1>2, <3>1, <4>1, <4>2 DEF e
        <3>3. PICK j \in DOMAIN q : Covers(q, j, key) /\ q[j].val = nodes[i].val
            BY <3>1 DEF Merged
        <3>4. j \in 1 .. m /\ j \in DOMAIN r /\ r[j] = q[j] /\ q[j].beg <= key
            BY <1>5, <1>6, <3>3 DEF Covers
        <3>5. j + 1 \in DOMAIN r => key < r[j + 1].beg
            <4>1. CASE j = m
                BY <1>6, <3>2, <4>1
            <4>2. CASE j # m
                <5>1. j + 1 \in 1 .. m
                    BY <1>5, <3>4, <4>2
                <5> QED
                    BY <1>5, <1>6, <3>3, <5>1 DEF Covers
            <4> QED
                BY <4>1, <4>2
        <3>6. Covers(r, j, key)
            BY <3>4, <3>5 DEF Covers
        <3> QED
            BY <3>3, <3>4, <3>6
    <2> QED
        BY <2>1, <2>2
<1>14. Last(r).val = nodes[n + 1].val /\ Last(r).beg <= nodes[n + 1].beg
    BY <1>3, <1>6 DEF Last, e
<1> QED
    BY <1>11, <1>12, <1>13, <1>14 DEF Merged, r, e

(* So _fix leaves the value of every key, and makes the ranges maximal.    *)
LEMMA Fixed ==
    ASSUME NEW V, NEW maxKey \in Nat, NEW nodes, IsMap(nodes, V, maxKey)
    PROVE  /\ IsMap(fix(nodes), V, maxKey) /\ Maximal(fix(nodes))
           /\ SameValues(nodes, fix(nodes))
<1> DEFINE N == Len(nodes)
<1>1. /\ DOMAIN nodes = 1 .. N /\ N \in Nat /\ N > 0 /\ nodes \in Seq(Node(V))
      /\ \A i \in DOMAIN nodes : nodes[i] \in Node(V) /\ nodes[i].beg \in Nat
    BY NodesOf DEF IsMap
<1>2. PICK kept : IsKept(nodes, kept) /\ fix(nodes) = kept[N]
    BY <1>1, FixComputes
<1>3. /\ kept[0] = <<>>
      /\ \A n \in 1 .. N :
            kept[n] = IF n > 1 /\ Last(kept[n - 1]).val = nodes[n].val THEN kept[n - 1]
                      ELSE Append(kept[n - 1], nodes[n])
    <2> DEFINE Val(n) == IF n = 0 THEN <<>>
                         ELSE IF n > 1 /\ Last(kept[n - 1]).val = nodes[n].val
                              THEN kept[n - 1] ELSE Append(kept[n - 1], nodes[n])
    <2>1. kept = [n \in 0 .. N |-> Val(n)]
        BY <1>2 DEF IsKept
    <2>2. \A n \in 0 .. N : kept[n] = Val(n)
        <3> HIDE DEF Val
        <3> QED
            BY <2>1
    <2>3. 0 \in 0 .. N /\ \A n \in 1 .. N : n \in 0 .. N /\ n # 0
        BY <1>1
    <2> QED
        BY <2>2, <2>3, Zenon
<1> HIDE DEF N
<1> DEFINE P(n) == Merged(nodes, n, V, maxKey, kept[n])
           Bad == {n \in 1 .. N : ~P(n)}
<1>4. P(1)
    <2> DEFINE e == nodes[1]
               q == kept[1]
    <2>1. 1 \in 1 .. N /\ ~(1 > 1) /\ 1 - 1 = 0
        BY <1>1
    <2>2. q = Append(<<>>, e)
        BY <1>3, <2>1, Zenon
    <2>3. e \in Node(V) /\ e.beg = 0
        BY <1>1, <2>1 DEF IsMap
    <2> HIDE DEF e, q
    <2>4. q \in Seq(Node(V)) /\ Len(q) = 1 /\ DOMAIN q = 1 .. 1 /\ q[1] = e
        <3> DEFINE M == Node(V)
        <3>1. e \in M
            BY <2>3
        <3> HIDE DEF M
        <3>2. q \in Seq(M) /\ Len(q) = 1 /\ DOMAIN q = 1 .. 1 /\ q[1] = e
            BY <2>2, <3>1
        <3> QED
            BY <3>2 DEF M
    <2>5. IsMap(q, V, maxKey) /\ Maximal(q)
        BY <2>3, <2>4 DEF IsMap, Increasing, Maximal
    <2>6. Last(q) = e
        BY <2>4 DEF Last
    <2>7. ASSUME NEW key \in Nat, NEW i \in 1 .. 1
          PROVE  \E j \in DOMAIN q : Covers(q, j, key) /\ q[j].val = nodes[i].val
        <3>1. Covers(q, 1, key) /\ q[1].val = nodes[i].val
            BY <2>3, <2>4 DEF Covers, e
        <3> QED
            BY <2>4, <3>1
    <2> QED
        BY <2>3, <2>5, <2>6, <2>7 DEF Merged, q, e
<1>5. ASSUME NEW n \in 1 .. N - 1, P(n)
      PROVE  P(n + 1)
    <2>1. n + 1 \in 1 .. N /\ n + 1 > 1 /\ n + 1 - 1 = n /\ n \in 1 .. Len(nodes) - 1
        BY <1>1 DEF N
    <2>2. kept[n + 1] = IF Last(kept[n]).val = nodes[n + 1].val THEN kept[n]
                        ELSE Append(kept[n], nodes[n + 1])
        <3> DEFINE p == n + 1
        <3>1. p \in 1 .. N /\ p > 1 /\ p - 1 = n
            BY <2>1
        <3> HIDE DEF p
        <3>2. kept[p] = IF p > 1 /\ Last(kept[p - 1]).val = nodes[p].val THEN kept[p - 1]
                        ELSE Append(kept[p - 1], nodes[p])
            BY <1>3, <3>1, Zenon
        <3>3. kept[p] = IF Last(kept[n]).val = nodes[p].val THEN kept[n]
                        ELSE Append(kept[n], nodes[p])
            BY <3>1, <3>2
        <3> QED
            BY <3>3 DEF p
    <2>3. CASE Last(kept[n]).val = nodes[n + 1].val
        BY <1>5, <2>1, <2>2, <2>3, MergeEqual
    <2>4. CASE Last(kept[n]).val # nodes[n + 1].val
        BY <1>5, <2>1, <2>2, <2>4, MergeOther
    <2> QED
        BY <2>3, <2>4
<1>6. Bad = {}
    <2> SUFFICES ASSUME Bad # {}
                 PROVE  FALSE
        OBVIOUS
    <2>1. Bad \in SUBSET Nat
        BY <1>1
    <2>2. PICK n \in Bad : \A k \in Bad : n <= k
        <3> HIDE DEF Bad
        <3> QED
            BY <2>1, LeastNumber
    <2>3. n \in 1 .. N /\ ~P(n)
        OBVIOUS
    <2> HIDE DEF P
    <2>4. n # 1
        BY <1>4, <2>3
    <2>5. n - 1 \in 1 .. N - 1 /\ n - 1 \in 1 .. N /\ ~(n <= n - 1) /\ n - 1 + 1 = n
        BY <1>1, <2>3, <2>4
    <2>6. P(n - 1)
        BY <2>2, <2>5
    <2> QED
        BY <1>5, <2>3, <2>5, <2>6
<1>7. Merged(nodes, N, V, maxKey, fix(nodes))
    <2>1. N \in 1 .. N /\ N \notin Bad
        <3>1. N \in 1 .. N
            BY <1>1
        <3> HIDE DEF Bad
        <3> QED
            BY <1>6, <3>1
    <2> QED
        BY <1>2, <2>1
<1>8. ASSUME NEW key \in Nat
      PROVE  get(fix(nodes), key) = get(nodes, key)
    <2> DEFINE i == find_node(nodes, key)
    <2>1. Covers(nodes, i, key) /\ get(nodes, key) = nodes[i].val
        BY FindNode DEF get
    <2> HIDE DEF i
    <2>2. i \in 1 .. N /\ CoversOf(nodes, N, i, key)
        BY <1>1, <2>1 DEF Covers, CoversOf
    <2>3. PICK j \in DOMAIN fix(nodes) :
             Covers(fix(nodes), j, key) /\ fix(nodes)[j].val = nodes[i].val
        BY <1>7, <2>2 DEF Merged
    <2>4. IsMap(fix(nodes), V, maxKey)
        BY <1>7 DEF Merged
    <2> QED
        BY <2>1, <2>3, <2>4, GetCovered
<1> QED
    BY <1>7, <1>8 DEF Merged, SameValues

-----------------------------------------------------------------------------
(* A map of one value.                                                     *)
LEMMA NewMapIsMap ==
    ASSUME NEW V, NEW val \in V, NEW maxKey \in Nat
    PROVE  /\ IsMap(NewMap(val), V, maxKey) /\ Maximal(NewMap(val))
           /\ \A key \in Nat : get(NewMap(val), key) = val
<1> DEFINE e == [beg |-> 0, val |-> val]
           q == NewMap(val)
<1>1. e \in Node(V) /\ e.beg = 0 /\ e.val = val
    BY DEF Node
<1>2. q = <<e>>
    BY DEF NewMap
<1> HIDE DEF e, q
<1>3. q \in Seq(Node(V)) /\ Len(q) = 1 /\ DOMAIN q = 1 .. 1 /\ q[1] = e
    <2> DEFINE M == Node(V)
    <2>1. e \in M
        BY <1>1
    <2> HIDE DEF M
    <2>2. q \in Seq(M) /\ Len(q) = 1 /\ DOMAIN q = 1 .. 1 /\ q[1] = e
        BY <1>2, <2>1
    <2> QED
        BY <2>2 DEF M
<1>4. IsMap(q, V, maxKey) /\ Maximal(q)
    BY <1>1, <1>3 DEF IsMap, Increasing, Maximal
<1>5. ASSUME NEW key \in Nat
      PROVE  get(q, key) = val
    <2>1. Covers(q, 1, key) /\ q[1].val = val
        BY <1>1, <1>3 DEF Covers
    <2> QED
        BY <1>4, <2>1, GetCovered
<1> QED
    BY <1>4, <1>5 DEF q

(* The nodes between two that begin at low and after high get a value.     *)
Overwrite(cut, first, beyond, val) ==
    [i \in DOMAIN cut |-> IF i \in first .. beyond - 1 THEN [cut[i] EXCEPT !.val = val]
                          ELSE cut[i]]

(* m has the value at the keys of those nodes, and cut's at all others.    *)
Overwrites(cut, first, beyond, val, m) ==
    \A key \in Nat : \A i : Covers(cut, i, key) =>
        get(m, key) = IF i \in first .. beyond - 1 THEN val ELSE get(cut, key)

(* A map whose nodes of a range are overwritten has the value there, and   *)
(* elsewhere what it had.                                                  *)
LEMMA Overwritten ==
    ASSUME NEW V, NEW maxKey \in Nat, NEW cut, IsMap(cut, V, maxKey), NEW val \in V,
           NEW first \in DOMAIN cut, NEW beyond \in 1 .. Len(cut) + 1,
           NEW m, m = Overwrite(cut, first, beyond, val)
    PROVE  IsMap(m, V, maxKey) /\ Overwrites(cut, first, beyond, val, m)
<1>1. /\ DOMAIN cut = 1 .. Len(cut) /\ Len(cut) \in Nat /\ Len(cut) > 0
      /\ \A i \in DOMAIN cut : cut[i] \in Node(V) /\ cut[i].beg \in Nat
                                /\ cut[i].val \in V
    BY NodesOf
<1>2. \A x \in Node(V) : /\ [x EXCEPT !.val = val] \in Node(V)
                          /\ [x EXCEPT !.val = val].beg = x.beg
                          /\ [x EXCEPT !.val = val].val = val
    BY DEF Node
<1>3. \A i \in DOMAIN cut :
         /\ m[i] \in Node(V) /\ m[i].beg = cut[i].beg
         /\ m[i].val = IF i \in first .. beyond - 1 THEN val ELSE cut[i].val
    <2> TAKE i \in DOMAIN cut
    <2>1. CASE i \in first .. beyond - 1
        <3>1. m[i] = [cut[i] EXCEPT !.val = val]
            BY <2>1, Zenon DEF Overwrite
        <3>2. cut[i] \in Node(V)
            BY <1>1
        <3>3. m[i] \in Node(V) /\ m[i].beg = cut[i].beg /\ m[i].val = val
            BY <1>2, <3>1, <3>2, Zenon
        <3> QED
            BY <2>1, <3>3
    <2>2. CASE i \notin first .. beyond - 1
        <3>1. m[i] = cut[i]
            BY <2>2, Zenon DEF Overwrite
        <3> QED
            BY <1>1, <2>2, <3>1, Zenon
    <2> QED
        BY <2>1, <2>2
<1>4. m \in Seq(Node(V)) /\ Len(m) = Len(cut) /\ DOMAIN m = DOMAIN cut
    <2> DEFINE N == Node(V)
    <2>1. DOMAIN m = 1 .. Len(cut) /\ \A i \in 1 .. Len(cut) : m[i] \in N
        BY <1>1, <1>3 DEF Overwrite
    <2>2. m = [i \in 1 .. Len(cut) |-> m[i]]
        BY <1>1 DEF Overwrite
    <2> HIDE DEF N
    <2>3. m \in [1 .. Len(cut) -> N]
        BY <2>1, <2>2
    <2>4. m \in Seq(N) /\ Len(m) = Len(cut)
        BY <1>1, <2>3
    <2> QED
        BY <1>1, <2>1, <2>4 DEF N
<1>5. IsMap(m, V, maxKey)
    <2>1. \A i \in DOMAIN cut : m[i].beg = cut[i].beg
        BY <1>3
    <2>2. /\ cut[1].beg = 0 /\ \A i \in DOMAIN cut : cut[i].beg <= maxKey
          /\ \A i, j \in DOMAIN cut : i < j => cut[i].beg < cut[j].beg
        BY DEF IsMap, Increasing
    <2>3. 1 \in DOMAIN cut
        BY <1>1
    <2> QED
        BY <1>1, <1>4, <2>1, <2>2, <2>3 DEF IsMap, Increasing
<1>6. ASSUME NEW key \in Nat, NEW i, Covers(cut, i, key)
      PROVE  get(m, key) = IF i \in first .. beyond - 1 THEN val ELSE get(cut, key)
    <2>1. get(cut, key) = cut[i].val
        BY <1>6, GetCovered
    <2>2. Covers(m, i, key)
        BY <1>3, <1>4, <1>6 DEF Covers
    <2>3. get(m, key) = m[i].val
        BY <1>5, <2>2, GetCovered
    <2>4. i \in DOMAIN cut
        BY <1>6 DEF Covers
    <2> QED
        BY <1>3, <2>1, <2>3, <2>4
<1> QED
    BY <1>5, <1>6 DEF Overwrites

(* In a map with a node that begins at key, that node is found for it, and *)
(* the keys from it on are covered by that node and those behind it.       *)
LEMMA NodeAt ==
    ASSUME NEW V, NEW maxKey \in Nat, NEW nodes, IsMap(nodes, V, maxKey), NEW key \in Nat,
           Begins(nodes, key)
    PROVE  /\ find_node(nodes, key) \in DOMAIN nodes
           /\ \A k \in Nat : \A j : Covers(nodes, j, k) =>
                 (j >= find_node(nodes, key) <=> k >= key)
<1>1. /\ DOMAIN nodes = 1 .. Len(nodes) /\ Len(nodes) \in Nat
      /\ \A i \in DOMAIN nodes : nodes[i].beg \in Nat
    BY NodesOf
<1>2. \A i, j \in DOMAIN nodes : i < j => nodes[i].beg < nodes[j].beg
    BY DEF IsMap, Increasing
<1>3. PICK i \in DOMAIN nodes : nodes[i].beg = key
    BY DEF Begins
<1>4. i + 1 \in DOMAIN nodes => key < nodes[i + 1].beg
    BY <1>1, <1>2, <1>3
<1>5. Covers(nodes, i, key)
    BY <1>3, <1>4 DEF Covers
<1>6. find_node(nodes, key) = i
    BY <1>5, FindNode
<1>7. ASSUME NEW k \in Nat, NEW j, Covers(nodes, j, k)
      PROVE  j >= i <=> k >= key
    <2>1. j \in DOMAIN nodes /\ nodes[j].beg <= k
          /\ (j + 1 \in DOMAIN nodes => k < nodes[j + 1].beg)
        BY <1>7 DEF Covers
    <2>2. CASE j >= i
        <3>1. i = j \/ i < j
            BY <1>1, <2>1, <2>2
        <3> QED
            BY <1>1, <1>2, <1>3, <2>1, <2>2, <3>1
    <2>3. CASE ~(j >= i)
        <3>1. j + 1 \in DOMAIN nodes /\ (j + 1 = i \/ j + 1 < i)
            BY <1>1, <2>1, <2>3
        <3>2. nodes[j + 1].beg <= key
            BY <1>1, <1>2, <1>3, <3>1
        <3> QED
            BY <1>1, <2>1, <2>3, <3>1, <3>2
    <2> QED
        BY <2>2, <2>3
<1> QED
    BY <1>6, <1>7

(* Is a map what another one is after set?                                 *)
IsSet(nodes, low, high, val, maxKey, after) ==
    \A key \in 0 .. maxKey :
       get(after, key) = IF key \in low .. high THEN val ELSE get(nodes, key)

(* RangeMap::set: afterwards the keys from low to high have the value, all *)
(* others the one they had, and the ranges are maximal, for every map and  *)
(* every range in it (range-map.hh:93-120).                                *)
THEOREM SetIsExact ==
    ASSUME NEW V, NEW maxKey \in Nat, NEW nodes, IsMap(nodes, V, maxKey), NEW val \in V,
           NEW low \in Nat, NEW high \in Nat, low <= high, high <= maxKey
    PROVE  /\ IsMap(set(nodes, low, high, val, maxKey), V, maxKey)
           /\ Maximal(set(nodes, low, high, val, maxKey))
           /\ IsSet(nodes, low, high, val, maxKey, set(nodes, low, high, val, maxKey))
<1> DEFINE cutLow == CutAt(nodes, low)
           cut    == IF high # maxKey THEN CutAt(cutLow, high + 1) ELSE cutLow
           first  == find_node(cut, low)
           beyond == IF high # maxKey THEN find_node(cut, high + 1) ELSE Len(cut) + 1
           m      == Overwrite(cut, first, beyond, val)
<1>1. set(nodes, low, high, val, maxKey) = fix(m)
    BY DEF set, Overwrite
<1>2. low \in 0 .. maxKey /\ (high # maxKey => high + 1 \in 0 .. maxKey)
    OBVIOUS
<1>3. IsMap(cutLow, V, maxKey) /\ SameValues(nodes, cutLow) /\ Begins(cutLow, low)
    BY <1>2, Cut
<1> HIDE DEF cutLow
<1>4. /\ IsMap(cut, V, maxKey)
      /\ SameValues(nodes, cut)
      /\ Begins(cut, low)
      /\ high # maxKey => Begins(cut, high + 1)
    <2>1. CASE high = maxKey
        BY <1>3, <2>1
    <2>2. CASE high # maxKey
        <3> DEFINE h == high + 1
                   c == CutAt(cutLow, h)
        <3>1. h \in 0 .. maxKey
            BY <1>2, <2>2
        <3> HIDE DEF h
        <3>2. /\ IsMap(c, V, maxKey) /\ SameValues(cutLow, c) /\ Begins(c, h)
              /\ \A b : Begins(cutLow, b) => Begins(c, b)
            BY <1>3, <3>1, Cut
        <3>3. cut = c
            BY <2>2 DEF h
        <3> HIDE DEF c, cut
        <3> QED
            BY <1>3, <3>2, <3>3 DEF h, SameValues
    <2> QED
        BY <2>1, <2>2
<1> HIDE DEF cut
<1>5. DOMAIN cut = 1 .. Len(cut) /\ Len(cut) \in Nat
    BY <1>4, NodesOf
<1>6. /\ first \in DOMAIN cut
      /\ \A k \in Nat : \A j : Covers(cut, j, k) => (j >= first <=> k >= low)
    BY <1>4, NodeAt
<1>7. /\ beyond \in 1 .. Len(cut) + 1
      /\ \A k \in 0 .. maxKey : \A j : Covers(cut, j, k) => (j < beyond <=> k <= high)
    <2>1. CASE high = maxKey
        BY <1>5, <2>1 DEF Covers
    <2>2. CASE high # maxKey
        <3> DEFINE h == high + 1
        <3>1. h \in Nat /\ Begins(cut, h)
            BY <1>4, <2>2
        <3> HIDE DEF h
        <3>2. /\ find_node(cut, h) \in DOMAIN cut
              /\ \A k \in Nat : \A j : Covers(cut, j, k) => (j >= find_node(cut, h) <=> k >= h)
            BY <1>4, <3>1, NodeAt
        <3>3. beyond = find_node(cut, h)
            BY <2>2 DEF h
        <3> HIDE DEF beyond
        <3>4. ASSUME NEW k \in 0 .. maxKey, NEW j, Covers(cut, j, k)
              PROVE  j < beyond <=> k <= high
            <4>1. j \in 1 .. Len(cut) /\ beyond \in 1 .. Len(cut)
                BY <1>5, <3>2, <3>3, <3>4 DEF Covers
            <4>2. j >= beyond <=> k >= high + 1
                BY <3>2, <3>3, <3>4 DEF h
            <4> QED
                BY <1>5, <4>1, <4>2
        <3> QED
            BY <1>5, <3>2, <3>3, <3>4
    <2> QED
        BY <2>1, <2>2
<1> HIDE DEF first, beyond
<1>8. IsMap(m, V, maxKey) /\ Overwrites(cut, first, beyond, val, m)
    BY <1>4, <1>6, <1>7, Overwritten
<1> HIDE DEF m
<1>9. IsMap(fix(m), V, maxKey) /\ Maximal(fix(m)) /\ SameValues(m, fix(m))
    BY <1>8, Fixed
<1>10. ASSUME NEW key \in 0 .. maxKey
       PROVE  get(fix(m), key) = IF key \in low .. high THEN val ELSE get(nodes, key)
    <2> DEFINE i == find_node(cut, key)
    <2>1. Covers(cut, i, key) /\ key \in Nat
        BY <1>4, FindNode
    <2> HIDE DEF i
    <2>2. i \in 1 .. Len(cut)
        BY <1>5, <2>1 DEF Covers
    <2>3. i \in first .. beyond - 1 <=> key \in low .. high
        BY <1>5, <1>6, <1>7, <2>1, <2>2
    <2>4. get(fix(m), key) = IF i \in first .. beyond - 1 THEN val ELSE get(cut, key)
        BY <1>8, <1>9, <2>1 DEF Overwrites, SameValues
    <2> QED
        BY <1>4, <2>1, <2>3, <2>4 DEF SameValues
<1> QED
    BY <1>1, <1>9, <1>10 DEF IsSet

(* What a caller of range_of may rely on.                                  *)
IsRangeOf(nodes, key, maxKey, rg) ==
    /\ rg.low \in Nat /\ rg.high \in Nat /\ rg.val = get(nodes, key)
    /\ rg.low <= key /\ key <= rg.high /\ rg.high <= maxKey
    /\ \A b \in rg.low .. rg.high : get(nodes, b) = rg.val
    /\ rg.low > 0 => get(nodes, rg.low - 1) # rg.val
    /\ rg.high < maxKey => get(nodes, rg.high + 1) # rg.val

(* RangeMap::range_of: all keys of the range have its value, and the keys  *)
(* next to it have another (range-map.hh:122-130).                         *)
THEOREM RangeOfIsExact ==
    ASSUME NEW V, NEW maxKey \in Nat, NEW nodes, IsMap(nodes, V, maxKey), Maximal(nodes),
           NEW key \in 0 .. maxKey
    PROVE  IsRangeOf(nodes, key, maxKey, range_of(nodes, key, maxKey))
<1> DEFINE i == find_node(nodes, key)
           N == Len(nodes)
           low == nodes[i].beg
           high == EndKey(nodes, i, maxKey)
           val == nodes[i].val
<1>1. /\ DOMAIN nodes = 1 .. N /\ N \in Nat /\ N > 0
      /\ \A j \in 1 .. N : nodes[j].beg \in Nat
    BY NodesOf
<1>2. Covers(nodes, i, key) /\ key \in Nat
    BY FindNode
<1>3. range_of(nodes, key, maxKey) = [low |-> low, high |-> high, val |-> val]
    BY DEF range_of, RangeAt
<1>4. val = get(nodes, key)
    BY DEF get
<1> HIDE DEF i, N
<1>5. i \in 1 .. N /\ low \in Nat /\ low <= key /\ (i + 1 \in 1 .. N => key < nodes[i + 1].beg)
    BY <1>1, <1>2 DEF Covers
<1>6. \A j, k \in 1 .. N : j < k => nodes[j].beg < nodes[k].beg
    BY <1>1 DEF IsMap, Increasing
<1>7. \A j \in 1 .. N : nodes[j].beg <= maxKey
    BY <1>1 DEF IsMap
<1>8. /\ high \in Nat /\ key <= high /\ high <= maxKey
      /\ i < N => high = nodes[i + 1].beg - 1
      /\ i = N => high = maxKey
    <2>1. CASE i = N
        BY <2>1 DEF EndKey, N
    <2>2. CASE i # N
        <3>1. high = nodes[i + 1].beg - 1
            BY <2>2 DEF EndKey, N
        <3>2. i + 1 \in 1 .. N
            BY <1>1, <1>5, <2>2
        <3> QED
            BY <1>1, <1>5, <1>7, <2>2, <3>1, <3>2
    <2> QED
        BY <2>1, <2>2
<1> HIDE DEF low, high, val
<1>9. ASSUME NEW b \in low .. high
      PROVE  get(nodes, b) = val
    <2>1. Covers(nodes, i, b)
        <3>1. i + 1 \in 1 .. N => i < N
            BY <1>1, <1>5
        <3>2. i + 1 \in 1 .. N => b < nodes[i + 1].beg
            BY <1>1, <1>5, <1>8, <3>1
        <3> QED
            BY <1>1, <1>5, <1>8, <3>2 DEF Covers, low
    <2> QED
        BY <1>5, <1>8, <2>1, GetCovered DEF val
<1>10. ASSUME low > 0
       PROVE  get(nodes, low - 1) # val
    <2>1. i # 1
        BY <1>10 DEF low, IsMap
    <2>2. i - 1 \in 1 .. N /\ i - 1 + 1 = i /\ i - 1 \in 1 .. N - 1
        BY <1>1, <1>5, <2>1
    <2>3. nodes[i - 1].beg < low /\ nodes[i - 1].beg \in Nat
        BY <1>1, <1>5, <1>6, <2>2 DEF low
    <2>4. nodes[i - 1].val # val
        BY <2>2 DEF Maximal, val, N
    <2>5. Covers(nodes, i - 1, low - 1)
        BY <1>1, <1>5, <2>2, <2>3 DEF Covers, low
    <2>6. low - 1 \in Nat
        BY <1>5, <1>10
    <2> QED
        BY <2>4, <2>5, <2>6, GetCovered
<1>11. ASSUME high < maxKey
       PROVE  get(nodes, high + 1) # val
    <2>1. i \in 1 .. N - 1 /\ i + 1 \in 1 .. N /\ i < N
        BY <1>1, <1>5, <1>8, <1>11
    <2>2. high + 1 = nodes[i + 1].beg
        BY <1>1, <1>8, <2>1
    <2>3. i + 1 + 1 \in 1 .. N => nodes[i + 1].beg < nodes[i + 1 + 1].beg
        BY <1>6, <2>1
    <2>4. Covers(nodes, i + 1, high + 1)
        BY <1>1, <2>1, <2>2, <2>3 DEF Covers
    <2>5. nodes[i + 1].val # val
        BY <2>1 DEF Maximal, val, N
    <2> QED
        BY <1>8, <2>4, <2>5, GetCovered
<1> QED
    BY <1>3, <1>4, <1>5, <1>8, <1>9, <1>10, <1>11 DEF IsRangeOf
=============================================================================
