-------------------------- MODULE TransportProofs --------------------------
(***************************************************************************)
(* Proofs about Transport, for messages, bytes and lengths of every size:  *)
(* no byte is lost however writes and reads are cut, and the messages that *)
(* arrive are those of a Channel.  RangeMapProofs has what is needed about *)
(* numbers and recursion.                                                  *)
(***************************************************************************)
EXTENDS Transport, RangeMapProofs

-----------------------------------------------------------------------------
(* The inductive invariant.                                                *)

TransportType ==
    /\ spc \in {"idle", "head", "body", "gone"} /\ rpc \in {"head", "body", "gone"}
    /\ sbuf \in Seq(Byte) /\ smsg \in Message /\ sent \in Seq(Message)
    /\ rbuf \in Seq(Byte) /\ rlen \in 0 .. MaxSize /\ got \in Seq(Message)
    /\ wire \in Seq(Byte) /\ interrupts \in Nat /\ torn \in BOOLEAN

(* A loop of write_mult or of read_mult still has something to do, and     *)
(* before its first byte a message is whole.                               *)
Unfinished ==
    /\ spc \in {"head", "body"} => Len(sbuf) > 0
    /\ spc = "head" => Len(sbuf) <= HeadLen
    /\ FirstByte => sbuf = SizeBytes(Len(smsg))
    /\ rpc = "head" => Len(rbuf) < HeadLen
    /\ rpc = "body" => Len(rbuf) < rlen

(* What is left to write of the message of send_data_tcp.                  *)
Pending == CASE spc = "head" -> sbuf \o smsg
             [] spc = "body" -> sbuf
             [] OTHER -> <<>>

(* ... if a byte of it was written.                                        *)
Unsent == IF FirstByte THEN <<>> ELSE Pending

(* What has left the sender, in the order in which it did.                 *)
Arrived == (Stream(got) \o Held) \o wire

(* Together with what is left of the message in write_mult these are the   *)
(* bytes of all messages; a sender that left owes some of them.            *)
AllBytes ==
    \E owed \in Seq(Byte) : /\ Arrived \o owed = Stream(sent)
                            /\ spc # "gone" => owed = Unsent

(* What arrived is what was sent first.                                    *)
InOrder == /\ Len(got) <= Len(sent)
           /\ \A i \in 1 .. Len(got) : got[i] = sent[i]

TransportInv ==
    /\ TransportType /\ Unfinished
    /\ ~torn => InOrder /\ (rpc # "gone" => AllBytes)
-----------------------------------------------------------------------------
(* Numbers as bytes.                                                       *)

(* The quotients of a number.                                              *)
IsShifts(n, q) ==
    q = [i \in 0 .. HeadLen |-> IF i = 0 THEN n ELSE q[i - 1] \div ByteMod]

LawOfShifts(n) ==
    /\ Shifts(n)[0] = n
    /\ \A i \in 0 .. HeadLen : Shifts(n)[i] \in Nat
    /\ \A i \in 1 .. HeadLen : Shifts(n)[i] = Shifts(n)[i - 1] \div ByteMod

(* Shifts is well defined.                                                 *)
LEMMA ShiftsLaw ==
    ASSUME NEW n \in Nat
    PROVE  LawOfShifts(n)
<1> DEFINE N == HeadLen
           F == [x \in (1 .. N) \X Nat |-> x[2] \div ByteMod]
<1>0. N \in Nat /\ ByteMod \in Nat \ {0}
    BY TransportAssumption
<1>1. \A x \in (1 .. N) \X Nat : x[2] \div ByteMod \in Nat
    BY <1>0, DivMod
<1>2. IsStep(F, N, Nat)
    BY <1>1, Zenon DEF IsStep
<1>3. \A i \in 1 .. N, a \in Nat : F[<<i, a>>] = a \div ByteMod
    OBVIOUS
<1> HIDE DEF F, N
<1>4. PICK f \in [0 .. N -> Nat] : Iterates(F, n, N, f)
    BY <1>0, <1>2, RecursionExists
<1>5. IsShifts(n, f)
    <2> DEFINE g == [i \in 0 .. N |-> IF i = 0 THEN n ELSE f[i - 1] \div ByteMod]
    <2>1. ASSUME NEW i \in 0 .. N
          PROVE  f[i] = g[i]
        <3>1. CASE i = 0
            BY <1>4, <3>1 DEF Iterates
        <3>2. CASE i # 0
            <4>1. i \in 1 .. N /\ i - 1 \in 0 .. N
                BY <1>0, <3>2
            <4>2. f[i] = F[<<i, f[i - 1]>>] /\ f[i - 1] \in Nat
                BY <1>4, <4>1 DEF Iterates
            <4>3. f[i] = f[i - 1] \div ByteMod
                BY <1>3, <4>1, <4>2
            <4> QED
                BY <3>2, <4>3
        <3> QED
            BY <3>1, <3>2
    <2>2. g = [i \in 0 .. N |-> g[i]]
        OBVIOUS
    <2>3. f = g
        <3> HIDE DEF g
        <3> QED
            BY <2>1, <2>2
    <2> QED
        BY <2>3, Zenon DEF IsShifts, N
<1> DEFINE q == CHOOSE s : IsShifts(n, s)
<1>6. IsShifts(n, q)
    BY <1>5
<1>7. Shifts(n) = q
    BY DEF Shifts, IsShifts
<1> HIDE DEF q
<1>8. q[0] = n /\ \A i \in 1 .. N : q[i] = q[i - 1] \div ByteMod
    <2>1. \A i \in 0 .. N : q[i] = IF i = 0 THEN n ELSE q[i - 1] \div ByteMod
        BY <1>6 DEF IsShifts, N
    <2> QED
        BY <1>0, <2>1
<1>9. \A i \in 0 .. N : q[i] \in Nat
    <2>1. Obeys(F, n, N, Nat, q)
        BY <1>3, <1>8 DEF Obeys
    <2>2. Typed(N, Nat, q)
        BY <1>0, <1>2, <2>1, RecursionTyped
    <2> QED
        BY <2>2 DEF Typed
<1> QED
    BY <1>7, <1>8, <1>9 DEF LawOfShifts, N

(* The numbers of the highest bytes.                                       *)
IsHighest(bytes, v) ==
    v = [i \in 0 .. HeadLen |->
           IF i = 0 THEN 0 ELSE ByteMod * v[i - 1] + bytes[HeadLen + 1 - i]]

LawOfHighest(bytes) ==
    /\ Highest(bytes)[0] = 0
    /\ \A i \in 0 .. HeadLen : Highest(bytes)[i] \in Nat
    /\ \A i \in 1 .. HeadLen :
          Highest(bytes)[i] = ByteMod * Highest(bytes)[i - 1] + bytes[HeadLen + 1 - i]

(* Highest is well defined.                                                *)
LEMMA HighestLaw ==
    ASSUME NEW bytes \in [1 .. HeadLen -> Nat]
    PROVE  LawOfHighest(bytes)
<1> DEFINE N == HeadLen
           F == [x \in (1 .. N) \X Nat |-> ByteMod * x[2] + bytes[N + 1 - x[1]]]
<1>0. N \in Nat /\ ByteMod \in Nat \ {0}
    BY TransportAssumption
<1>1. \A i \in 1 .. N, a \in Nat : ByteMod * a + bytes[N + 1 - i] \in Nat
    <2> TAKE i \in 1 .. N, a \in Nat
    <2>1. N + 1 - i \in 1 .. HeadLen
        BY <1>0
    <2>2. bytes[N + 1 - i] \in Nat /\ ByteMod * a \in Nat
        BY <1>0, <2>1
    <2> QED
        BY <2>2
<1>2. IsStep(F, N, Nat)
    <2>1. \A x \in (1 .. N) \X Nat : x[1] \in 1 .. N /\ x[2] \in Nat
        OBVIOUS
    <2>2. \A x \in (1 .. N) \X Nat : ByteMod * x[2] + bytes[N + 1 - x[1]] \in Nat
        BY <1>1, <2>1, Zenon
    <2> QED
        BY <2>2, Zenon DEF IsStep
<1>3. \A i \in 1 .. N, a \in Nat : F[<<i, a>>] = ByteMod * a + bytes[N + 1 - i]
    OBVIOUS
<1> HIDE DEF F, N
<1>4. PICK f \in [0 .. N -> Nat] : Iterates(F, 0, N, f)
    BY <1>0, <1>2, RecursionExists
<1>5. IsHighest(bytes, f)
    <2> DEFINE g == [i \in 0 .. N |->
                       IF i = 0 THEN 0 ELSE ByteMod * f[i - 1] + bytes[N + 1 - i]]
    <2>1. ASSUME NEW i \in 0 .. N
          PROVE  f[i] = g[i]
        <3>1. CASE i = 0
            BY <1>4, <3>1 DEF Iterates
        <3>2. CASE i # 0
            <4>1. i \in 1 .. N /\ i - 1 \in 0 .. N
                BY <1>0, <3>2
            <4>2. f[i] = F[<<i, f[i - 1]>>] /\ f[i - 1] \in Nat
                BY <1>4, <4>1 DEF Iterates
            <4>3. f[i] = ByteMod * f[i - 1] + bytes[N + 1 - i]
                BY <1>3, <4>1, <4>2
            <4> QED
                BY <3>2, <4>3
        <3> QED
            BY <3>1, <3>2
    <2>2. g = [i \in 0 .. N |-> g[i]]
        OBVIOUS
    <2>3. f = g
        <3> HIDE DEF g
        <3> QED
            BY <2>1, <2>2
    <2> QED
        BY <2>3, Zenon DEF IsHighest, N
<1> DEFINE v == CHOOSE s : IsHighest(bytes, s)
<1>6. IsHighest(bytes, v)
    BY <1>5
<1>7. Highest(bytes) = v
    BY DEF Highest, IsHighest
<1> HIDE DEF v
<1>8. v[0] = 0 /\ \A i \in 1 .. N : v[i] = ByteMod * v[i - 1] + bytes[N + 1 - i]
    <2>1. \A i \in 0 .. N :
             v[i] = IF i = 0 THEN 0 ELSE ByteMod * v[i - 1] + bytes[N + 1 - i]
        BY <1>6 DEF IsHighest, N
    <2> QED
        BY <1>0, <2>1
<1>9. \A i \in 0 .. N : v[i] \in Nat
    <2>1. Obeys(F, 0, N, Nat, v)
        BY <1>3, <1>8 DEF Obeys
    <2>2. Typed(N, Nat, v)
        BY <1>0, <1>2, <2>1, RecursionTyped
    <2> QED
        BY <2>2 DEF Typed
<1> QED
    BY <1>7, <1>8, <1>9 DEF LawOfHighest, N

(* The length of a message as bytes.                                       *)
LEMMA SizeBytesType ==
    ASSUME NEW n \in Nat
    PROVE  /\ SizeBytes(n) \in [1 .. HeadLen -> Byte]
           /\ SizeBytes(n) \in Seq(Byte) /\ Len(SizeBytes(n)) = HeadLen
<1>0. HeadLen \in Nat /\ ByteMod \in Nat \ {0}
    BY TransportAssumption
<1>1. ASSUME NEW i \in 1 .. HeadLen
      PROVE  Shifts(n)[i - 1] % ByteMod \in Byte
    <2>1. i - 1 \in 0 .. HeadLen
        BY <1>0
    <2>2. Shifts(n)[i - 1] \in Nat
        BY <2>1, ShiftsLaw DEF LawOfShifts
    <2> QED
        BY <1>0, <2>2, DivMod DEF Byte
<1>2. SizeBytes(n) \in [1 .. HeadLen -> Byte]
    BY <1>1 DEF SizeBytes
<1> QED
    BY <1>0, <1>2

(* The largest bytes.                                                      *)
TopBytes == [i \in 1 .. HeadLen |-> ByteMod - 1]

(* They are bytes.                                                         *)
LEMMA TopBytesType == TopBytes \in [1 .. HeadLen -> Nat] /\ LawOfHighest(TopBytes)
<1>1. TopBytes \in [1 .. HeadLen -> Nat]
    BY TransportAssumption DEF TopBytes
<1> QED
    BY <1>1, HighestLaw

(* The largest number is one.                                              *)
LEMMA MaxSizeType == MaxSize \in Nat /\ MaxSize = Highest(TopBytes)[HeadLen]
<1>1. HeadLen \in 0 .. HeadLen
    BY TransportAssumption
<1>2. MaxSize = Highest(TopBytes)[HeadLen]
    BY DEF MaxSize, SizeOf, TopBytes
<1> QED
    BY <1>1, <1>2, TopBytesType DEF LawOfHighest

(* A number up to the largest one has no more bytes than it.               *)
LEMMA SizeFits ==
    ASSUME NEW n \in 0 .. MaxSize
    PROVE  Shifts(n)[HeadLen] = 0
<1> DEFINE N == HeadLen
           q == Shifts(n)
           top == Highest(TopBytes)
           Bad == {i \in 0 .. N : ~(q[i] <= top[N - i])}
<1>0. N \in Nat /\ ByteMod \in Nat \ {0} /\ n \in Nat
    BY TransportAssumption, MaxSizeType
<1>1. /\ q[0] = n /\ \A i \in 0 .. N : q[i] \in Nat
      /\ \A i \in 1 .. N : q[i] = q[i - 1] \div ByteMod
    BY <1>0, ShiftsLaw DEF LawOfShifts
<1>2. /\ top[0] = 0 /\ \A i \in 0 .. N : top[i] \in Nat
      /\ \A i \in 1 .. N : top[i] = ByteMod * top[i - 1] + TopBytes[N + 1 - i]
    BY TopBytesType DEF LawOfHighest
<1>3. n <= top[N]
    BY <1>0, MaxSizeType
<1> HIDE DEF q, top
<1>4. Bad = {}
    <2> SUFFICES ASSUME Bad # {}
                 PROVE  FALSE
        OBVIOUS
    <2>1. Bad \in SUBSET Nat
        BY <1>0
    <2>2. PICK i \in Bad : \A k \in Bad : i <= k
        <3> HIDE DEF Bad
        <3> QED
            BY <2>1, LeastNumber
    <2>3. i # 0
        BY <1>0, <1>1, <1>3, <2>2
    <2>4. /\ i \in 1 .. N /\ i - 1 \in 0 .. N /\ N - i \in 0 .. N
          /\ N - (i - 1) \in 1 .. N /\ N - (i - 1) - 1 = N - i
          /\ N + 1 - (N - (i - 1)) \in 1 .. N
        BY <1>0, <2>2, <2>3
    <2>5. i - 1 \notin Bad
        BY <2>2, <2>4
    <2>6. q[i - 1] <= top[N - (i - 1)]
        BY <2>4, <2>5
    <2>7. top[N - (i - 1)] = ByteMod * top[N - i] + (ByteMod - 1)
        <3>1. TopBytes[N + 1 - (N - (i - 1))] = ByteMod - 1
            BY <2>4 DEF TopBytes
        <3> QED
            BY <1>2, <2>4, <3>1
    <2>8. q[i - 1] \in Nat /\ top[N - i] \in Nat
        BY <1>1, <1>2, <2>4
    <2>9. q[i - 1] \div ByteMod <= top[N - i]
        BY <1>0, <2>6, <2>7, <2>8, DivBound
    <2> QED
        BY <1>1, <2>2, <2>4, <2>9
<1>5. N \in 0 .. N /\ N - N = 0
    BY <1>0
<1>6. q[N] <= top[0] /\ q[N] \in Nat
    BY <1>1, <1>4, <1>5
<1> QED
    BY <1>2, <1>6 DEF q, N

(* What recv_data_tcp reads as a length is the length send_data_tcp wrote. *)
LEMMA SizeRoundTrip ==
    ASSUME NEW n \in 0 .. MaxSize
    PROVE  SizeOf(SizeBytes(n)) = n
<1> DEFINE N == HeadLen
           q == Shifts(n)
           bytes == SizeBytes(n)
           v == Highest(bytes)
           Bad == {i \in 0 .. N : v[i] # q[N - i]}
<1>0. N \in Nat /\ ByteMod \in Nat \ {0} /\ n \in Nat
    BY TransportAssumption, MaxSizeType
<1>1. /\ q[0] = n /\ \A i \in 0 .. N : q[i] \in Nat
      /\ \A i \in 1 .. N : q[i] = q[i - 1] \div ByteMod
    BY <1>0, ShiftsLaw DEF LawOfShifts
<1>2. \A i \in 1 .. N : bytes[i] = q[i - 1] % ByteMod
    BY DEF SizeBytes
<1>3. bytes \in [1 .. HeadLen -> Nat]
    <2>1. bytes \in [1 .. HeadLen -> Byte]
        BY <1>0, SizeBytesType
    <2>2. Byte \subseteq Nat
        BY <1>0 DEF Byte
    <2> HIDE DEF bytes
    <2> QED
        BY <2>1, <2>2
<1>4. /\ v[0] = 0
      /\ \A i \in 1 .. N : v[i] = ByteMod * v[i - 1] + bytes[N + 1 - i]
    <2> HIDE DEF bytes
    <2> QED
        BY <1>3, HighestLaw DEF LawOfHighest
<1>5. q[N] = 0
    BY SizeFits
<1>6. SizeOf(bytes) = v[N]
    BY DEF SizeOf
<1> HIDE DEF q, v, bytes
<1>7. Bad = {}
    <2> SUFFICES ASSUME Bad # {}
                 PROVE  FALSE
        OBVIOUS
    <2>1. Bad \in SUBSET Nat
        BY <1>0
    <2>2. PICK i \in Bad : \A k \in Bad : i <= k
        <3> HIDE DEF Bad
        <3> QED
            BY <2>1, LeastNumber
    <2>3. i # 0
        BY <1>0, <1>4, <1>5, <2>2
    <2>4. /\ i \in 1 .. N /\ i - 1 \in 0 .. N /\ N - i \in 0 .. N
          /\ N + 1 - i \in 1 .. N /\ N + 1 - i - 1 = N - i /\ N - (i - 1) = N + 1 - i
        BY <1>0, <2>2, <2>3
    <2>5. i - 1 \notin Bad
        BY <2>2, <2>4
    <2>6. v[i - 1] = q[N + 1 - i]
        BY <2>4, <2>5
    <2>7. q[N + 1 - i] = q[N - i] \div ByteMod /\ bytes[N + 1 - i] = q[N - i] % ByteMod
        <3> DEFINE k == N + 1 - i
        <3>1. k \in 1 .. N /\ k - 1 = N - i
            BY <1>0, <2>2, <2>3
        <3> HIDE DEF k
        <3>2. q[k] = q[k - 1] \div ByteMod /\ bytes[k] = q[k - 1] % ByteMod
            BY <1>1, <1>2, <3>1
        <3> QED
            BY <3>1, <3>2 DEF k
    <2>8. v[i] = ByteMod * (q[N - i] \div ByteMod) + (q[N - i] % ByteMod)
        BY <1>4, <2>4, <2>6, <2>7
    <2>9. q[N - i] \in Nat
        BY <1>1, <2>4
    <2>10. v[i] = q[N - i]
        BY <1>0, <2>8, <2>9, DivMod
    <2> QED
        BY <2>2, <2>10
<1>8. N \in 0 .. N /\ N - N = 0
    BY <1>0
<1>9. v[N] = q[0]
    BY <1>7, <1>8
<1> QED
    BY <1>1, <1>6, <1>9 DEF bytes

(* Any bytes are read as a length that a msg_size_t can be.                *)
LEMMA SizeOfBound ==
    ASSUME NEW bytes \in [1 .. HeadLen -> Byte]
    PROVE  SizeOf(bytes) \in 0 .. MaxSize
<1> DEFINE N == HeadLen
           v == Highest(bytes)
           top == Highest(TopBytes)
           Bad == {i \in 0 .. N : ~(v[i] <= top[i])}
<1>0. N \in Nat /\ ByteMod \in Nat \ {0} /\ MaxSize \in Nat /\ MaxSize = top[N]
    BY TransportAssumption, MaxSizeType
<1>1. bytes \in [1 .. HeadLen -> Nat] /\ \A i \in 1 .. N : bytes[i] <= ByteMod - 1
    BY <1>0 DEF Byte
<1>2. /\ v[0] = 0 /\ \A i \in 0 .. N : v[i] \in Nat
      /\ \A i \in 1 .. N : v[i] = ByteMod * v[i - 1] + bytes[N + 1 - i]
    BY <1>1, HighestLaw DEF LawOfHighest
<1>3. /\ top[0] = 0 /\ \A i \in 0 .. N : top[i] \in Nat
      /\ \A i \in 1 .. N : top[i] = ByteMod * top[i - 1] + TopBytes[N + 1 - i]
    BY TopBytesType DEF LawOfHighest
<1>4. SizeOf(bytes) = v[N]
    BY DEF SizeOf
<1> HIDE DEF v, top
<1>5. Bad = {}
    <2> SUFFICES ASSUME Bad # {}
                 PROVE  FALSE
        OBVIOUS
    <2>1. Bad \in SUBSET Nat
        BY <1>0
    <2>2. PICK i \in Bad : \A k \in Bad : i <= k
        <3> HIDE DEF Bad
        <3> QED
            BY <2>1, LeastNumber
    <2>3. i # 0
        BY <1>2, <1>3, <2>2
    <2>4. i \in 1 .. N /\ i - 1 \in 0 .. N /\ N + 1 - i \in 1 .. N
        BY <1>0, <2>2, <2>3
    <2>5. i - 1 \notin Bad
        BY <2>2, <2>4
    <2>6. v[i - 1] <= top[i - 1] /\ v[i - 1] \in Nat /\ top[i - 1] \in Nat
        BY <1>2, <1>3, <2>4, <2>5
    <2>7. bytes[N + 1 - i] <= TopBytes[N + 1 - i] /\ bytes[N + 1 - i] \in Nat
        BY <1>1, <2>4 DEF TopBytes
    <2>8. TopBytes[N + 1 - i] \in Nat
        BY <2>4, TopBytesType
    <2>9. ByteMod * v[i - 1] <= ByteMod * top[i - 1]
        BY <1>0, <2>6
    <2>10. v[i] = ByteMod * v[i - 1] + bytes[N + 1 - i]
        BY <1>2, <2>4
    <2>11. top[i] = ByteMod * top[i - 1] + TopBytes[N + 1 - i]
        BY <1>3, <2>4
    <2>12. ByteMod * v[i - 1] \in Nat /\ ByteMod * top[i - 1] \in Nat
        BY <1>0, <2>6
    <2>13. v[i] <= top[i]
        BY <2>7, <2>8, <2>9, <2>10, <2>11, <2>12
    <2> QED
        BY <2>2, <2>13
<1>6. N \in 0 .. N
    BY <1>0
<1>7. v[N] <= top[N] /\ v[N] \in Nat
    BY <1>2, <1>5, <1>6
<1> QED
    BY <1>0, <1>4, <1>7

-----------------------------------------------------------------------------
(* Messages and their bytes.                                               *)

(* Pieces of a stream can be joined in any order.                          *)
JoinLaw(s, t, u) ==
    /\ (s \o t) \o u = s \o (t \o u)
    /\ s \o t \in Seq(Byte) /\ t \o u \in Seq(Byte) /\ (s \o t) \o u \in Seq(Byte)
    /\ Len(s \o t) = Len(s) + Len(t)

(* They can.                                                               *)
LEMMA Joined ==
    ASSUME NEW s \in Seq(Byte), NEW t \in Seq(Byte), NEW u \in Seq(Byte)
    PROVE  JoinLaw(s, t, u)
<1>1. s \o t \in Seq(Byte) /\ t \o u \in Seq(Byte) /\ Len(s \o t) = Len(s) + Len(t)
    BY ConcatProperties
<1> DEFINE st == s \o t
<1>2. st \in Seq(Byte)
    BY <1>1
<1>3. st \o u \in Seq(Byte)
    <2> HIDE DEF st
    <2> QED
        BY <1>2, ConcatProperties
<1>4. (s \o t) \o u = s \o (t \o u)
    BY ConcatAssociative
<1> QED
    BY <1>1, <1>3, <1>4 DEF JoinLaw

(* Messages are the sequences of bytes whose length is a msg_size_t.       *)
LEMMA MessageIsSeq ==
    ASSUME NEW m
    PROVE  m \in Message <=> m \in Seq(Byte) /\ Len(m) \in 0 .. MaxSize
<1>0. MaxSize \in Nat
    BY MaxSizeType
<1>1. ASSUME m \in Message
      PROVE  m \in Seq(Byte) /\ Len(m) \in 0 .. MaxSize
    <2>1. PICK n \in 0 .. MaxSize : m \in [1 .. n -> Byte]
        BY <1>1 DEF Message
    <2>2. n \in Nat
        BY <1>0
    <2> QED
        BY <2>1, <2>2
<1>2. ASSUME m \in Seq(Byte), Len(m) \in 0 .. MaxSize
      PROVE  m \in Message
    <2>1. m \in [1 .. Len(m) -> Byte]
        BY <1>2
    <2> QED
        BY <1>2, <2>1 DEF Message
<1> QED
    BY <1>1, <1>2

(* A message with its length in front of it.                               *)
LEMMA EncodedType ==
    ASSUME NEW m \in Message
    PROVE  /\ m \in Seq(Byte) /\ Len(m) \in Nat /\ Len(m) \in 0 .. MaxSize
           /\ Encoded(m) \in Seq(Byte) /\ Len(Encoded(m)) = HeadLen + Len(m)
<1>1. m \in Seq(Byte) /\ Len(m) \in 0 .. MaxSize /\ Len(m) \in Nat
    BY MessageIsSeq
<1>2. SizeBytes(Len(m)) \in Seq(Byte) /\ Len(SizeBytes(Len(m))) = HeadLen
    BY <1>1, SizeBytesType
<1> QED
    BY <1>1, <1>2, ConcatProperties DEF Encoded

(* The bytes of the first messages.                                        *)
IsStreams(msgs, s) ==
    s = [i \in 0 .. Len(msgs) |-> IF i = 0 THEN <<>> ELSE s[i - 1] \o Encoded(msgs[i])]

LawOfStreams(msgs) ==
    /\ Streams(msgs)[0] = <<>>
    /\ \A i \in 0 .. Len(msgs) : Streams(msgs)[i] \in Seq(Byte)
    /\ \A i \in 1 .. Len(msgs) : Streams(msgs)[i] = Streams(msgs)[i - 1] \o Encoded(msgs[i])

(* Streams is well defined.                                                *)
LEMMA StreamsLaw ==
    ASSUME NEW msgs \in Seq(Message)
    PROVE  LawOfStreams(msgs)
<1> DEFINE N == Len(msgs)
           V == Seq(Byte)
           F == [x \in (1 .. N) \X V |-> x[2] \o Encoded(msgs[x[1]])]
           none == <<>>
<1>0. N \in Nat /\ none \in V
    OBVIOUS
<1>1. \A i \in 1 .. N, a \in V : a \o Encoded(msgs[i]) \in V
    <2> TAKE i \in 1 .. N, a \in V
    <2>1. msgs[i] \in Message
        OBVIOUS
    <2>2. Encoded(msgs[i]) \in Seq(Byte)
        BY <2>1, EncodedType
    <2> QED
        BY <2>2, ConcatProperties
<1>2. IsStep(F, N, V)
    <2>1. \A x \in (1 .. N) \X V : x[1] \in 1 .. N /\ x[2] \in V
        OBVIOUS
    <2>2. \A x \in (1 .. N) \X V : x[2] \o Encoded(msgs[x[1]]) \in V
        BY <1>1, <2>1, Zenon
    <2> QED
        BY <2>2, Zenon DEF IsStep
<1>3. \A i \in 1 .. N, a \in V : F[<<i, a>>] = a \o Encoded(msgs[i])
    OBVIOUS
<1> HIDE DEF F, N, V, none
<1>4. PICK f \in [0 .. N -> V] : Iterates(F, none, N, f)
    BY <1>0, <1>2, RecursionExists
<1>5. IsStreams(msgs, f)
    <2> DEFINE g == [i \in 0 .. N |-> IF i = 0 THEN none ELSE f[i - 1] \o Encoded(msgs[i])]
    <2>1. ASSUME NEW i \in 0 .. N
          PROVE  f[i] = g[i]
        <3>1. CASE i = 0
            BY <1>4, <3>1 DEF Iterates
        <3>2. CASE i # 0
            <4>1. i \in 1 .. N /\ i - 1 \in 0 .. N
                BY <1>0, <3>2
            <4>2. f[i] = F[<<i, f[i - 1]>>] /\ f[i - 1] \in V
                BY <1>4, <4>1 DEF Iterates
            <4>3. f[i] = f[i - 1] \o Encoded(msgs[i])
                BY <1>3, <4>1, <4>2
            <4> QED
                BY <3>2, <4>3
        <3> QED
            BY <3>1, <3>2
    <2>2. g = [i \in 0 .. N |-> g[i]]
        OBVIOUS
    <2>3. f = g
        <3> HIDE DEF g
        <3> QED
            BY <2>1, <2>2
    <2> QED
        BY <2>3, Zenon DEF IsStreams, N, none
<1> DEFINE s == CHOOSE t : IsStreams(msgs, t)
<1>6. IsStreams(msgs, s)
    BY <1>5
<1>7. Streams(msgs) = s
    BY DEF Streams, IsStreams
<1> HIDE DEF s
<1>8. s[0] = none /\ \A i \in 1 .. N : s[i] = s[i - 1] \o Encoded(msgs[i])
    <2>1. \A i \in 0 .. N : s[i] = IF i = 0 THEN none ELSE s[i - 1] \o Encoded(msgs[i])
        BY <1>6 DEF IsStreams, N, none
    <2>2. 0 \in 0 .. N /\ \A i \in 1 .. N : i \in 0 .. N /\ i # 0
        BY <1>0
    <2> QED
        BY <2>1, <2>2, Zenon
<1>9. \A i \in 0 .. N : s[i] \in V
    <2>1. Obeys(F, none, N, V, s)
        BY <1>3, <1>8 DEF Obeys
    <2>2. Typed(N, V, s)
        BY <1>0, <1>2, <2>1, RecursionTyped
    <2> QED
        BY <2>2 DEF Typed
<1> QED
    BY <1>7, <1>8, <1>9 DEF LawOfStreams, N, V, none

(* The stream is one of bytes, and nothing for no message.                 *)
LEMMA StreamType ==
    ASSUME NEW msgs \in Seq(Message)
    PROVE  Stream(msgs) \in Seq(Byte)
<1>1. Len(msgs) \in 0 .. Len(msgs)
    OBVIOUS
<1> QED
    BY <1>1, StreamsLaw DEF LawOfStreams, Stream

(* The first k messages of two sequences are the same.                     *)
SameFirst(msgs, other, k) ==
    k <= Len(msgs) /\ k <= Len(other) /\ \A i \in 1 .. k : msgs[i] = other[i]

(* The bytes of the first messages depend on these only.                   *)
LEMMA StreamsAgree ==
    ASSUME NEW msgs \in Seq(Message), NEW other \in Seq(Message), NEW k \in Nat,
           SameFirst(msgs, other, k)
    PROVE  Streams(msgs)[k] = Streams(other)[k]
<1> DEFINE s == Streams(msgs)
           t == Streams(other)
           Bad == {i \in 0 .. k : s[i] # t[i]}
<1>1. s[0] = <<>> /\ \A i \in 1 .. Len(msgs) : s[i] = s[i - 1] \o Encoded(msgs[i])
    BY StreamsLaw DEF LawOfStreams
<1>2. t[0] = <<>> /\ \A i \in 1 .. Len(other) : t[i] = t[i - 1] \o Encoded(other[i])
    BY StreamsLaw DEF LawOfStreams
<1> HIDE DEF s, t
<1>3. Bad = {}
    <2> SUFFICES ASSUME Bad # {}
                 PROVE  FALSE
        OBVIOUS
    <2>1. Bad \in SUBSET Nat
        OBVIOUS
    <2>2. PICK i \in Bad : \A j \in Bad : i <= j
        <3> HIDE DEF Bad
        <3> QED
            BY <2>1, LeastNumber
    <2>3. i # 0
        BY <1>1, <1>2, <2>2
    <2>4. /\ i \in 1 .. k /\ i - 1 \in 0 .. k
          /\ i \in 1 .. Len(msgs) /\ i \in 1 .. Len(other)
        BY <2>2, <2>3 DEF SameFirst
    <2>5. i - 1 \notin Bad
        BY <2>2, <2>4
    <2>6. s[i - 1] = t[i - 1] /\ msgs[i] = other[i]
        BY <2>4, <2>5 DEF SameFirst
    <2>7. s[i] = t[i]
        BY <1>1, <1>2, <2>4, <2>6
    <2> QED
        BY <2>2, <2>7
<1> QED
    BY <1>3 DEF s, t

(* A message more is its bytes more.                                       *)
LEMMA StreamAppend ==
    ASSUME NEW msgs \in Seq(Message), NEW m \in Message
    PROVE  Stream(Append(msgs, m)) = Stream(msgs) \o Encoded(m)
<1> DEFINE more == Append(msgs, m)
           n == Len(msgs)
<1>1. /\ more \in Seq(Message) /\ n \in Nat /\ Len(more) = n + 1
      /\ more[n + 1] = m /\ \A i \in 1 .. n : more[i] = msgs[i]
    BY AppendProperties
<1> HIDE DEF more, n
<1>2. SameFirst(more, msgs, n)
    BY <1>1 DEF SameFirst, n
<1>3. Streams(more)[n] = Streams(msgs)[n]
    BY <1>1, <1>2, StreamsAgree
<1>4. n + 1 \in 1 .. Len(more) /\ (n + 1) - 1 = n
    BY <1>1
<1>5. Streams(more)[n + 1] = Streams(more)[n] \o Encoded(m)
    <2>1. Streams(more)[n + 1] = Streams(more)[(n + 1) - 1] \o Encoded(more[n + 1])
        BY <1>1, <1>4, StreamsLaw DEF LawOfStreams
    <2> QED
        BY <1>1, <1>4, <2>1
<1> QED
    BY <1>1, <1>3, <1>5 DEF Stream, more, n

(* t is s and something more.                                              *)
Continues(t, s) == \E r \in Seq(Byte) : t = s \o r

(* All messages go on where the first ones end.                            *)
LEMMA StreamSplit ==
    ASSUME NEW msgs \in Seq(Message), NEW k \in 0 .. Len(msgs)
    PROVE  Continues(Stream(msgs), Streams(msgs)[k])
<1> DEFINE s == Streams(msgs)
           n == Len(msgs)
           Bad == {i \in 0 .. n : i >= k /\ ~Continues(s[i], s[k])}
<1>0. n \in Nat /\ k \in Nat /\ k <= n
    OBVIOUS
<1>1. /\ \A i \in 0 .. n : s[i] \in Seq(Byte)
      /\ \A i \in 1 .. n : s[i] = s[i - 1] \o Encoded(msgs[i])
    BY StreamsLaw DEF LawOfStreams
<1> HIDE DEF s
<1>2. Bad = {}
    <2> SUFFICES ASSUME Bad # {}
                 PROVE  FALSE
        OBVIOUS
    <2>1. Bad \in SUBSET Nat
        OBVIOUS
    <2>2. PICK i \in Bad : \A j \in Bad : i <= j
        <3> HIDE DEF Bad
        <3> QED
            BY <2>1, LeastNumber
    <2>3. i # k
        <3>1. s[k] = s[k] \o <<>> /\ <<>> \in Seq(Byte)
            BY <1>0, <1>1, ConcatEmptySeq
        <3>2. Continues(s[k], s[k])
            BY <3>1 DEF Continues
        <3> QED
            BY <2>2, <3>2
    <2>4. i \in 1 .. n /\ i - 1 \in 0 .. n /\ i - 1 >= k
        BY <1>0, <2>2, <2>3
    <2>5. Continues(s[i - 1], s[k])
        <3>1. i - 1 \notin Bad
            BY <2>2, <2>4
        <3> QED
            BY <2>4, <3>1
    <2>6. PICK r \in Seq(Byte) : s[i - 1] = s[k] \o r
        BY <2>5 DEF Continues
    <2>7. msgs[i] \in Message
        BY <2>4
    <2> DEFINE e == Encoded(msgs[i])
    <2>8. e \in Seq(Byte)
        BY <2>7, EncodedType
    <2>9. s[i] = s[i - 1] \o e
        BY <1>1, <2>4
    <2> HIDE DEF e
    <2>10. s[k] \in Seq(Byte)
        BY <1>0, <1>1
    <2>11. s[i] = s[k] \o (r \o e) /\ r \o e \in Seq(Byte)
        <3> DEFINE x == s[k]
        <3>1. x \in Seq(Byte)
            BY <2>10
        <3>2. s[i] = (x \o r) \o e
            BY <2>6, <2>9, Zenon
        <3> HIDE DEF x
        <3>3. (x \o r) \o e = x \o (r \o e) /\ r \o e \in Seq(Byte)
            <4>1. JoinLaw(x, r, e)
                BY <2>8, <3>1, Joined
            <4> QED
                BY <4>1, Zenon DEF JoinLaw
        <3> QED
            BY <3>2, <3>3 DEF x
    <2>12. Continues(s[i], s[k])
        BY <2>11 DEF Continues
    <2> QED
        BY <2>2, <2>12
<1>3. n \in 0 .. n /\ n >= k
    BY <1>0
<1> QED
    BY <1>2, <1>3 DEF Stream, s

(* What begins two equal streams is equal if it is as long.                *)
LEMMA SameFront ==
    ASSUME NEW a \in Seq(Byte), NEW b \in Seq(Byte), NEW c \in Seq(Byte),
           NEW d \in Seq(Byte), Len(a) = Len(b), a \o c = b \o d
    PROVE  a = b /\ c = d
<1>1. ASSUME NEW i \in 1 .. Len(a)
      PROVE  a[i] = b[i]
    <2>1. (a \o c)[i] = a[i]
        BY ConcatProperties
    <2>2. (b \o d)[i] = b[i]
        BY ConcatProperties
    <2> QED
        BY <2>1, <2>2
<1>2. a = b
    BY <1>1, SeqEqual
<1>3. c = d
    BY <1>2, ConcatSimplifications
<1> QED
    BY <1>2, <1>3

(* A whole message has arrived, by its length.                             *)
Complete(g, s, n, body, rest) ==
    /\ SameFirst(s, g, Len(g)) /\ n \in 0 .. MaxSize /\ Len(body) = n
    /\ Stream(g) \o ((SizeBytes(n) \o body) \o rest) = Stream(s)

(* It is the next one of those that were sent.                             *)
LEMMA NextMessage ==
    ASSUME NEW g \in Seq(Message), NEW s \in Seq(Message), NEW n,
           NEW body \in Seq(Byte), NEW rest \in Seq(Byte), Complete(g, s, n, body, rest)
    PROVE  Len(g) < Len(s) /\ body = s[Len(g) + 1]
<1> DEFINE k == Len(g)
           G == Stream(g)
           head == SizeBytes(n)
           X == (head \o body) \o rest
<1>0. k \in Nat /\ k <= Len(s) /\ n \in Nat /\ n \in 0 .. MaxSize /\ HeadLen \in Nat \ {0}
    BY MaxSizeType, TransportAssumption DEF Complete, SameFirst
<1>1. G \in Seq(Byte) /\ Stream(s) \in Seq(Byte)
    BY StreamType
<1>2. head \in Seq(Byte) /\ Len(head) = HeadLen
    BY <1>0, SizeBytesType
<1>3. G \o X = Stream(s)
    BY DEF Complete
<1>4. Streams(s)[k] = G
    BY <1>0, StreamsAgree DEF Complete, Stream
<1> HIDE DEF G
<1>5. head \o body \in Seq(Byte) /\ X = head \o (body \o rest) /\ X \in Seq(Byte)
      /\ body \o rest \in Seq(Byte)
    <2> HIDE DEF head
    <2>1. JoinLaw(head, body, rest)
        BY <1>2, Joined
    <2> QED
        BY <2>1, Zenon DEF JoinLaw
<1>6. k # Len(s)
    <2> SUFFICES ASSUME k = Len(s)
                 PROVE  FALSE
        OBVIOUS
    <2>1. G \o X = G
        BY <1>3, <1>4 DEF Stream
    <2>2. X = <<>>
        <3> HIDE DEF X
        <3> QED
            BY <1>1, <1>5, <2>1, ConcatSimplifications
    <2>3. Len(X) = Len(head) + Len(body \o rest)
        <3> DEFINE y == body \o rest
        <3> HIDE DEF head, y
        <3>1. Len(head \o y) = Len(head) + Len(y)
            BY <1>2, <1>5, ConcatProperties DEF y
        <3> QED
            BY <1>5, <3>1 DEF y
    <2>4. Len(X) = 0 /\ Len(body \o rest) \in Nat
        BY <1>5, <2>2
    <2> QED
        BY <1>0, <1>2, <2>3, <2>4
<1>7. k + 1 \in 1 .. Len(s) /\ k + 1 \in 0 .. Len(s) /\ (k + 1) - 1 = k
    BY <1>0, <1>6
<1> DEFINE m == s[k + 1]
           e == Encoded(m)
<1>8. m \in Message
    BY <1>7
<1> HIDE DEF m
<1>9. e \in Seq(Byte) /\ m \in Seq(Byte) /\ Len(m) \in 0 .. MaxSize /\ Len(m) \in Nat
    BY <1>8, EncodedType
<1>10. Streams(s)[k + 1] = G \o e
    <2>1. Streams(s)[k + 1] = Streams(s)[(k + 1) - 1] \o Encoded(s[k + 1])
        BY <1>7, StreamsLaw DEF LawOfStreams
    <2> QED
        BY <1>4, <1>7, <2>1 DEF m
<1>11. PICK r \in Seq(Byte) : Stream(s) = (G \o e) \o r
    <2>1. Continues(Stream(s), Streams(s)[k + 1])
        BY <1>7, StreamSplit
    <2> QED
        BY <1>10, <2>1 DEF Continues
<1>12. X = e \o r
    <2> HIDE DEF X, e
    <2>0. (G \o e) \o r = G \o (e \o r) /\ e \o r \in Seq(Byte)
        <3>1. JoinLaw(G, e, r)
            BY <1>1, <1>9, Joined
        <3> QED
            BY <3>1, Zenon DEF JoinLaw
    <2>1. Stream(s) = G \o (e \o r) /\ e \o r \in Seq(Byte)
        BY <1>11, <2>0, Zenon
    <2> DEFINE y == e \o r
    <2> HIDE DEF y
    <2>2. G \o X = G \o y /\ y \in Seq(Byte)
        BY <1>3, <2>1 DEF y
    <2> QED
        BY <1>1, <1>5, <2>2, ConcatSimplifications DEF y
<1> DEFINE size == SizeBytes(Len(m))
<1>13. size \in Seq(Byte) /\ Len(size) = HeadLen
    BY <1>9, SizeBytesType
<1>14. e = size \o m
    BY DEF Encoded
<1>15. head = size /\ body \o rest = m \o r
    <2> HIDE DEF head, size, e
    <2>1. e \o r = size \o (m \o r) /\ m \o r \in Seq(Byte)
        <3>1. JoinLaw(size, m, r)
            BY <1>9, <1>13, Joined
        <3> QED
            BY <1>14, <3>1, Zenon DEF JoinLaw
    <2> DEFINE y == body \o rest
               z == m \o r
    <2> HIDE DEF y, z
    <2>2. head \o y = size \o z /\ y \in Seq(Byte) /\ z \in Seq(Byte)
        BY <1>5, <1>12, <2>1 DEF y, z
    <2>3. head = size /\ y = z
        BY <1>2, <1>13, <2>2, SameFront
    <2> QED
        BY <2>3 DEF y, z
<1>16. n = Len(m)
    BY <1>0, <1>9, <1>15, SizeRoundTrip
<1>17. body = m
    BY <1>9, <1>15, <1>16, SameFront DEF Complete
<1> QED
    BY <1>0, <1>6, <1>17 DEF m

(* The bytes of a length that was read are the ones that were read.        *)
LEMMA BytesRoundTrip ==
    ASSUME NEW bytes \in [1 .. HeadLen -> Byte]
    PROVE  SizeBytes(SizeOf(bytes)) = bytes
<1> DEFINE N == HeadLen
           v == Highest(bytes)
           n == SizeOf(bytes)
           q == Shifts(n)
           Bad == {i \in 0 .. N : q[i] # v[N - i]}
<1>0. N \in Nat /\ ByteMod \in Nat \ {0} /\ n \in Nat /\ n = v[N]
    BY SizeOfBound, MaxSizeType, TransportAssumption DEF SizeOf
<1>1. bytes \in [1 .. HeadLen -> Nat]
    BY <1>0 DEF Byte
<1>2. /\ \A i \in 0 .. N : v[i] \in Nat
      /\ \A i \in 1 .. N : v[i] = ByteMod * v[i - 1] + bytes[N + 1 - i]
    BY <1>1, HighestLaw DEF LawOfHighest
<1>3. q[0] = n /\ \A i \in 1 .. N : q[i] = q[i - 1] \div ByteMod
    <2> HIDE DEF n
    <2> QED
        BY <1>0, ShiftsLaw DEF LawOfShifts
<1>4. SizeBytes(n) = [i \in 1 .. N |-> q[i - 1] % ByteMod]
    BY DEF SizeBytes
<1> HIDE DEF v, q, n
<1>5. ASSUME NEW i \in 1 .. N
      PROVE  /\ v[N - (i - 1)] \div ByteMod = v[N - i]
             /\ v[N - (i - 1)] % ByteMod = bytes[i]
    <2> DEFINE k == N - (i - 1)
    <2>1. k \in 1 .. N /\ k - 1 = N - i /\ N + 1 - k = i /\ k - 1 \in 0 .. N
        BY <1>0
    <2> HIDE DEF k
    <2>2. v[k] = ByteMod * v[k - 1] + bytes[N + 1 - k]
        BY <1>2, <2>1
    <2>3. v[k] = ByteMod * v[N - i] + bytes[i]
        BY <2>1, <2>2
    <2>4. v[N - i] \in Nat
        BY <1>2, <2>1
    <2>5. bytes[i] \in 0 .. ByteMod - 1
        BY DEF Byte
    <2> DEFINE hi == v[N - i]
               lo == bytes[i]
               nn == v[k]
    <2>6. hi \in Nat /\ lo \in 0 .. ByteMod - 1 /\ nn = ByteMod * hi + lo
        BY <2>3, <2>4, <2>5
    <2> HIDE DEF hi, lo, nn
    <2>7. nn \div ByteMod = hi /\ nn % ByteMod = lo
        BY <1>0, <2>6, DivModUnique
    <2> QED
        BY <2>7 DEF hi, lo, nn, k
<1>6. Bad = {}
    <2> SUFFICES ASSUME Bad # {}
                 PROVE  FALSE
        OBVIOUS
    <2>1. Bad \in SUBSET Nat
        BY <1>0
    <2>2. PICK i \in Bad : \A k \in Bad : i <= k
        <3> HIDE DEF Bad
        <3> QED
            BY <2>1, LeastNumber
    <2>3. i # 0
        BY <1>0, <1>3, <2>2
    <2>4. i \in 1 .. N /\ i - 1 \in 0 .. N
        BY <1>0, <2>2, <2>3
    <2>5. i - 1 \notin Bad
        BY <2>2, <2>4
    <2>6. q[i - 1] = v[N - (i - 1)]
        BY <2>4, <2>5
    <2>7. q[i] = v[N - i]
        BY <1>3, <1>5, <2>4, <2>6
    <2> QED
        BY <2>2, <2>7
<1>7. ASSUME NEW i \in 1 .. N
      PROVE  q[i - 1] % ByteMod = bytes[i]
    <2>1. i - 1 \in 0 .. N
        BY <1>0
    <2>2. q[i - 1] = v[N - (i - 1)]
        BY <1>6, <2>1
    <2> QED
        BY <1>5, <2>2
<1>8. SizeBytes(n) = [i \in 1 .. N |-> bytes[i]]
    BY <1>4, <1>7
<1> QED
    BY <1>8 DEF n, N

-----------------------------------------------------------------------------
(* Cutting a stream.                                                       *)
CutLaw(s, n) ==
    /\ Prefix(s, n) \in Seq(Byte) /\ Rest(s, n) \in Seq(Byte)
    /\ Prefix(s, n) \o Rest(s, n) = s
    /\ Len(Prefix(s, n)) = n /\ Len(Rest(s, n)) = Len(s) - n

(* Cut anywhere, the two pieces are what was there.                        *)
LEMMA CutStream ==
    ASSUME NEW s \in Seq(Byte), NEW n \in 0 .. Len(s)
    PROVE  CutLaw(s, n)
<1> DEFINE l == Len(s)
<1>0. l \in Nat /\ n \in Nat /\ n <= l
    OBVIOUS
<1>1. Prefix(s, n) \in Seq(Byte) /\ Len(Prefix(s, n)) = n
    <2>1. \A i \in 1 .. n : s[i] \in Byte
        BY <1>0
    <2> QED
        BY <1>0, <2>1, SubSeqProperties DEF Prefix
<1>2. Rest(s, n) \in Seq(Byte) /\ Len(Rest(s, n)) = l - n
    <2>1. \A i \in n + 1 .. l : s[i] \in Byte
        BY <1>0
    <2> QED
        BY <1>0, <2>1, SubSeqProperties DEF Rest
<1>3. Prefix(s, n) \o Rest(s, n) = s
    <2>1. 1 \in 1 .. l + 1 /\ n \in 1 - 1 .. l /\ l \in n .. l
        BY <1>0
    <2>2. SubSeq(s, 1, n) \o SubSeq(s, n + 1, l) = SubSeq(s, 1, l)
        BY <2>1, ConcatAdjacentSubSeq
    <2>3. SubSeq(s, 1, l) = s
        BY SubSeqFull
    <2> QED
        BY <2>2, <2>3 DEF Prefix, Rest
<1> QED
    BY <1>1, <1>2, <1>3 DEF CutLaw

(* The smaller of two numbers.                                             *)
LEMMA MinOfTwo ==
    ASSUME NEW a \in Int, NEW b \in Int
    PROVE  Min({a, b}) \in Int /\ Min({a, b}) <= a /\ Min({a, b}) <= b
<1>1. \E x \in {a, b} : \A y \in {a, b} : x <= y
    OBVIOUS
<1>2. Min({a, b}) \in {a, b} /\ \A y \in {a, b} : Min({a, b}) <= y
    BY <1>1 DEF Min
<1> QED
    BY <1>2

-----------------------------------------------------------------------------
(* The steps of the sender.                                                *)

(* One send() takes the first bytes of what is left to write.              *)
LEMMA WriteTakes ==
    ASSUME TransportType, Unfinished, spc \in {"head", "body"},
           NEW n \in 1 .. Len(sbuf), Written(n), UNCHANGED smsg
    PROVE  /\ Pending \in Seq(Byte) /\ Pending' \in Seq(Byte)
           /\ Pending = Prefix(sbuf, n) \o Pending'
           /\ spc' \in {"idle", "head", "body"} /\ sbuf' \in Seq(Byte)
           /\ spc' \in {"head", "body"} => Len(sbuf') > 0
           /\ spc' = "head" => Len(sbuf') < HeadLen
<1> DEFINE P == Prefix(sbuf, n)
           R == Rest(sbuf, n)
           nothing == <<>>
<1>0. sbuf \in Seq(Byte) /\ Len(sbuf) \in Nat /\ n \in 0 .. Len(sbuf) /\ n \in Nat
    BY DEF TransportType
<1>1. CutLaw(sbuf, n)
    BY <1>0, CutStream, Zenon
<1>2. /\ P \in Seq(Byte) /\ R \in Seq(Byte) /\ P \o R = sbuf /\ Len(R) = Len(sbuf) - n
    BY <1>1, Zenon DEF CutLaw
<1>3. smsg \in Seq(Byte) /\ Len(smsg) \in Nat /\ (smsg # <<>> => Len(smsg) > 0)
    BY EncodedType, EmptySeq DEF TransportType
<1>4. HeadLen \in Nat
    BY TransportAssumption
<1>5. Pending \in Seq(Byte)
    <2>1. sbuf \o smsg \in Seq(Byte)
        BY <1>0, <1>3, ConcatProperties
    <2> QED
        BY <1>0, <2>1 DEF Pending
<1> HIDE DEF P, R
<1>6. CASE n < Len(sbuf)
    <2>1. spc' = spc /\ sbuf' = R
        BY <1>6 DEF Written, R
    <2>2. CASE spc = "head"
        <3>1. Pending = sbuf \o smsg /\ Pending' = R \o smsg
            BY <2>1, <2>2 DEF Pending
        <3>2. JoinLaw(P, R, smsg)
            BY <1>2, <1>3, Joined
        <3>3. Pending = P \o Pending' /\ Pending' \in Seq(Byte)
            BY <1>2, <3>1, <3>2, Zenon DEF JoinLaw
        <3>4. Len(sbuf') > 0 /\ Len(sbuf') < HeadLen
            BY <1>0, <1>2, <1>4, <1>6, <2>1, <2>2 DEF Unfinished
        <3> QED
            BY <1>2, <1>5, <2>1, <2>2, <3>3, <3>4 DEF P
    <2>3. CASE spc = "body"
        <3>1. Pending = sbuf /\ Pending' = R
            BY <2>1, <2>3 DEF Pending
        <3>2. Len(sbuf') > 0
            BY <1>0, <1>2, <1>6, <2>1
        <3> QED
            BY <1>2, <1>5, <2>1, <2>3, <3>1, <3>2 DEF P
    <2> QED
        BY <2>2, <2>3
<1>7. CASE n = Len(sbuf)
    <2>1. P = sbuf
        BY <1>0, <1>7, SubSeqFull DEF P, Prefix
    <2>2. CASE spc = "head" /\ smsg # <<>>
        <3>1. spc' = "body" /\ sbuf' = smsg
            BY <1>0, <1>7, <2>2 DEF Written
        <3>2. Pending = sbuf \o smsg /\ Pending' = smsg
            BY <2>2, <3>1 DEF Pending
        <3> QED
            BY <1>3, <1>5, <2>1, <2>2, <3>1, <3>2 DEF P
    <2>3. CASE ~(spc = "head" /\ smsg # <<>>)
        <3>1. spc' = "idle" /\ sbuf' = <<>>
            BY <1>0, <1>7, <2>3 DEF Written
        <3>2. Pending' = nothing /\ nothing \in Seq(Byte)
            BY <3>1 DEF Pending
        <3>3. Pending = sbuf
            <4>1. CASE spc = "head"
                <5>1. smsg = <<>>
                    BY <2>3, <4>1
                <5>2. sbuf \o <<>> = sbuf
                    BY <1>0, ConcatEmptySeq
                <5> QED
                    BY <4>1, <5>1, <5>2 DEF Pending
            <4>2. CASE spc = "body"
                BY <4>2 DEF Pending
            <4> QED
                BY <4>1, <4>2
        <3>4. sbuf = sbuf \o nothing
            BY <1>0, ConcatEmptySeq
        <3>5. Pending = P \o Pending'
            BY <2>1, <3>2, <3>3, <3>4
        <3>6. sbuf' \in Seq(Byte)
            BY <3>1
        <3> QED
            BY <1>5, <3>1, <3>2, <3>5, <3>6 DEF P
    <2> QED
        BY <2>2, <2>3
<1> QED
    BY <1>0, <1>6, <1>7

(* What has arrived, held or under way is a stream of bytes.               *)
LEMMA ArrivedType ==
    ASSUME TransportType
    PROVE  /\ Stream(got) \in Seq(Byte) /\ Held \in Seq(Byte)
           /\ Stream(got) \o Held \in Seq(Byte) /\ Arrived \in Seq(Byte)
<1>1. Stream(got) \in Seq(Byte)
    BY StreamType DEF TransportType
<1>2. Held \in Seq(Byte)
    <2>1. rlen \in Nat /\ rbuf \in Seq(Byte)
        BY MaxSizeType DEF TransportType
    <2>2. SizeBytes(rlen) \in Seq(Byte)
        BY <2>1, SizeBytesType
    <2>3. SizeBytes(rlen) \o rbuf \in Seq(Byte)
        BY <2>1, <2>2, ConcatProperties
    <2> QED
        BY <2>1, <2>3 DEF Held
<1>3. wire \in Seq(Byte)
    BY DEF TransportType
<1>4. JoinLaw(Stream(got), Held, wire)
    <2> DEFINE S == Stream(got)
               H == Held
    <2>1. S \in Seq(Byte) /\ H \in Seq(Byte)
        BY <1>1, <1>2
    <2> HIDE DEF S, H
    <2>2. JoinLaw(S, H, wire)
        BY <1>3, <2>1, Joined
    <2> QED
        BY <2>2 DEF S, H
<1> QED
    BY <1>1, <1>2, <1>4, Zenon DEF JoinLaw, Arrived

(* Bytes that were written join those that have left the sender.           *)
LEMMA WriteKeeps ==
    ASSUME TransportInv, Write
    PROVE  TransportInv'
<1>0. TransportType /\ Unfinished
    BY DEF TransportInv
<1>1. sbuf \in Seq(Byte) /\ Len(sbuf) \in Nat /\ wire \in Seq(Byte) /\ Len(wire) \in Nat
    BY <1>0 DEF TransportType
<1>2. PICK n \in 1 .. Min({Len(sbuf), WireCap - Len(wire)}) :
         wire' = wire \o Prefix(sbuf, n) /\ Written(n)
    BY DEF Write
<1>3. n \in 1 .. Len(sbuf) /\ n \in 0 .. Len(sbuf)
    <2>1. WireCap - Len(wire) \in Int /\ Len(sbuf) \in Int
        BY <1>1, TransportAssumption
    <2> DEFINE k == Min({Len(sbuf), WireCap - Len(wire)})
    <2>2. k \in Int /\ k <= Len(sbuf)
        BY <2>1, MinOfTwo
    <2>3. n \in 1 .. k
        OBVIOUS
    <2> HIDE DEF k
    <2> QED
        BY <1>1, <2>2, <2>3
<1>4. /\ spc \in {"head", "body"} /\ rpc # "gone" /\ UNCHANGED smsg
      /\ sent' = IF FirstByte THEN Append(sent, smsg) ELSE sent
      /\ UNCHANGED <<rpc, rbuf, rlen, got, interrupts, torn>>
    BY DEF Write, recvVars
<1> DEFINE P == Prefix(sbuf, n)
<1>5. /\ Pending \in Seq(Byte) /\ Pending' \in Seq(Byte) /\ Pending = P \o Pending'
      /\ spc' \in {"idle", "head", "body"} /\ sbuf' \in Seq(Byte)
      /\ spc' \in {"head", "body"} => Len(sbuf') > 0
      /\ spc' = "head" => Len(sbuf') < HeadLen
    BY <1>0, <1>2, <1>3, <1>4, WriteTakes
<1>6. P \in Seq(Byte)
    <2>1. CutLaw(sbuf, n)
        BY <1>1, <1>3, CutStream
    <2> QED
        BY <2>1 DEF CutLaw
<1>7. wire' = wire \o P /\ wire' \in Seq(Byte)
    <2>1. wire' = wire \o P
        BY <1>2
    <2> HIDE DEF P
    <2> QED
        BY <1>1, <1>6, <2>1, ConcatProperties
<1> HIDE DEF P
<1>8. sent' \in Seq(Message)
    BY <1>0, <1>4, AppendProperties DEF TransportType
<1>9. TransportType'
    BY <1>0, <1>4, <1>5, <1>7, <1>8 DEF TransportType
<1>10. ~FirstByte'
    BY <1>5, TransportAssumption DEF FirstByte
<1>11. Unfinished'
    <2>1. HeadLen \in Nat /\ Len(sbuf') \in Nat
        BY <1>5, TransportAssumption
    <2> QED
        BY <1>0, <1>4, <1>5, <1>10, <2>1 DEF Unfinished
<1>12. ASSUME ~torn
       PROVE  InOrder' /\ AllBytes'
    <2>1. InOrder /\ AllBytes
        BY <1>4, <1>12 DEF TransportInv
    <2>2. InOrder'
        <3>1. CASE FirstByte
            <4>1. /\ Len(sent') = Len(sent) + 1 /\ Len(sent) \in Nat /\ Len(got) \in Nat
                  /\ \A i \in 1 .. Len(sent) : sent'[i] = sent[i]
                BY <1>0, <1>4, <3>1, AppendProperties DEF TransportType
            <4> QED
                BY <1>4, <2>1, <4>1 DEF InOrder
        <3>2. CASE ~FirstByte
            BY <1>4, <2>1, <3>2 DEF InOrder
        <3> QED
            BY <3>1, <3>2
    <2>3. Arrived \o Unsent = Stream(sent)
        <3>1. PICK owed \in Seq(Byte) : /\ Arrived \o owed = Stream(sent)
                                        /\ spc # "gone" => owed = Unsent
            BY <2>1 DEF AllBytes
        <3>2. spc # "gone"
            BY <1>4
        <3> QED
            BY <3>1, <3>2
    <2>4. Arrived \in Seq(Byte) /\ Stream(got) \o Held \in Seq(Byte)
        BY <1>0, ArrivedType
    <2>5. Stream(sent') = Arrived \o Pending
        <3>1. CASE FirstByte
            <4>1. Unsent = <<>>
                BY <3>1 DEF Unsent
            <4>2. Arrived \o <<>> = Arrived
                BY <2>4, ConcatEmptySeq
            <4>3. Stream(sent) = Arrived
                BY <2>3, <4>1, <4>2
            <4>4. Pending = Encoded(smsg)
                BY <1>0, <3>1 DEF Pending, Encoded, Unfinished, FirstByte
            <4>5. Stream(Append(sent, smsg)) = Stream(sent) \o Encoded(smsg)
                BY <1>0, StreamAppend DEF TransportType
            <4> QED
                BY <1>4, <3>1, <4>3, <4>4, <4>5
        <3>2. CASE ~FirstByte
            BY <1>4, <2>3, <3>2 DEF Unsent
        <3> QED
            BY <3>1, <3>2
    <2>6. Arrived' = Arrived \o P
        <3> DEFINE S == Stream(got) \o Held
        <3>1. Stream(got)' \o Held' = S
            BY <1>4 DEF Held
        <3>2. Arrived = S \o wire /\ Arrived' = S \o wire'
            BY <3>1 DEF Arrived
        <3>3. S \in Seq(Byte)
            BY <2>4
        <3> HIDE DEF S
        <3>4. JoinLaw(S, wire, P)
            BY <1>1, <1>6, <3>3, Joined
        <3> QED
            BY <1>7, <3>2, <3>4, Zenon DEF JoinLaw
    <2>7. JoinLaw(Arrived, P, Pending')
        BY <1>5, <1>6, <2>4, Joined
    <2>8. Arrived' \o Pending' = Stream(sent')
        BY <1>5, <2>5, <2>6, <2>7, Zenon DEF JoinLaw
    <2>9. Unsent' = Pending'
        BY <1>10 DEF Unsent
    <2>10. AllBytes'
        <3>1. Arrived' \o Pending' = Stream(sent)'
            BY <2>8
        <3> QED
            BY <1>5, <2>9, <3>1 DEF AllBytes
    <2> QED
        BY <2>2, <2>10
<1> QED
    BY <1>4, <1>9, <1>11, <1>12 DEF TransportInv

-----------------------------------------------------------------------------
(* The steps of the receiver.                                              *)

(* Bytes that were read are held, or complete a message with what was.     *)
Keeps(bytes) == got' = got /\ Held' = Held \o bytes

Completes(bytes, m) ==
    /\ got' = Append(got, m)
    /\ Held' = <<>> /\ Encoded(m) = Held \o bytes

ReadOutcome(bytes) == Keeps(bytes) \/ \E m \in Message : Completes(bytes, m)

ReadType ==
    /\ rpc' \in {"head", "body"} /\ rbuf' \in Seq(Byte) /\ rlen' \in 0 .. MaxSize
    /\ rpc' = "head" => Len(rbuf') < HeadLen
    /\ rpc' = "body" => Len(rbuf') < rlen'

(* One read() gives no more than what recv_data_tcp waits for.             *)
LEMMA ReadTakes ==
    ASSUME TransportType, Unfinished, rpc # "gone",
           NEW bytes \in Seq(Byte), Len(bytes) > 0, Len(bytes) <= Missing,
           TakeBytes(bytes)
    PROVE  ReadType /\ ReadOutcome(bytes)
<1> DEFINE all == rbuf \o bytes
           nothing == <<>>
<1>0. /\ rbuf \in Seq(Byte) /\ Len(rbuf) \in Nat /\ Len(bytes) \in Nat
      /\ rlen \in 0 .. MaxSize /\ rlen \in Nat /\ MaxSize \in Nat
      /\ HeadLen \in Nat \ {0} /\ rpc \in {"head", "body"}
      /\ nothing \in Seq(Byte) /\ Len(nothing) = 0
    BY MaxSizeType, TransportAssumption DEF TransportType
<1>1. all \in Seq(Byte) /\ Len(all) = Len(rbuf) + Len(bytes)
    BY <1>0, ConcatProperties
<1>2. SizeBytes(rlen) \in Seq(Byte)
    BY <1>0, SizeBytesType
<1>3. rpc = "body" => Held \o bytes = SizeBytes(rlen) \o all
    <2> SUFFICES ASSUME rpc = "body"
                 PROVE  Held \o bytes = SizeBytes(rlen) \o all
        OBVIOUS
    <2> DEFINE size == SizeBytes(rlen)
    <2>1. Held = size \o rbuf
        BY DEF Held
    <2> HIDE DEF size
    <2>2. JoinLaw(size, rbuf, bytes)
        BY <1>0, <1>2, Joined DEF size
    <2> QED
        BY <2>1, <2>2, Zenon DEF JoinLaw, size
<1>4. rpc = "head" => Held \o bytes = all
    BY DEF Held
<1>5. CASE Len(bytes) < Missing
    <2>1. rbuf' = all /\ UNCHANGED <<rpc, rlen, got>>
        BY <1>5 DEF TakeBytes
    <2>2. CASE rpc = "head"
        <3>1. Len(all) < HeadLen
            BY <1>0, <1>1, <1>5, <2>2 DEF Missing
        <3>2. ReadType
            BY <1>0, <1>1, <2>1, <2>2, <3>1 DEF ReadType
        <3>3. Held' = all
            BY <2>1, <2>2 DEF Held
        <3> QED
            BY <1>4, <2>1, <2>2, <3>2, <3>3 DEF ReadOutcome, Keeps
    <2>3. CASE rpc = "body"
        <3>1. Len(all) < rlen
            BY <1>0, <1>1, <1>5, <2>3 DEF Missing
        <3>2. ReadType
            BY <1>0, <1>1, <2>1, <2>3, <3>1 DEF ReadType
        <3>3. Held' = SizeBytes(rlen) \o all
            BY <2>1, <2>3 DEF Held
        <3> QED
            BY <1>3, <2>1, <2>3, <3>2, <3>3 DEF ReadOutcome, Keeps
    <2> QED
        BY <1>0, <2>2, <2>3
<1>6. CASE Len(bytes) = Missing /\ rpc = "body"
    <2>1. Received(all) /\ UNCHANGED rlen
        BY <1>0, <1>6 DEF TakeBytes, Missing
    <2>2. got' = Append(got, all) /\ rpc' = "head" /\ rbuf' = nothing /\ rlen' = rlen
        BY <2>1 DEF Received
    <2>3. Len(all) = rlen
        BY <1>0, <1>1, <1>6 DEF Missing
    <2>4. all \in Message
        BY <1>0, <1>1, <2>3, MessageIsSeq
    <2>5. Encoded(all) = Held \o bytes
        BY <1>3, <1>6, <2>3 DEF Encoded
    <2>6. Held' = nothing
        BY <2>2 DEF Held
    <2>7. Completes(bytes, all)
        BY <2>2, <2>5, <2>6 DEF Completes
    <2>8. ReadType
        BY <1>0, <2>2 DEF ReadType
    <2> QED
        BY <2>4, <2>7, <2>8 DEF ReadOutcome
<1>7. CASE Len(bytes) = Missing /\ rpc = "head"
    <2>1. /\ rlen' = SizeOf(all)
          /\ IF rlen' = 0 THEN Received(<<>>)
             ELSE rpc' = "body" /\ rbuf' = <<>> /\ UNCHANGED got
        BY <1>0, <1>7 DEF TakeBytes, Missing
    <2>2. Len(all) = HeadLen
        BY <1>0, <1>1, <1>7 DEF Missing
    <2>3. all \in [1 .. HeadLen -> Byte]
        <3> HIDE DEF all
        <3> QED
            BY <1>1, <2>2
    <2>4. rlen' \in 0 .. MaxSize /\ SizeBytes(rlen') = all
        <3> HIDE DEF all
        <3> QED
            BY <2>1, <2>3, SizeOfBound, BytesRoundTrip
    <2>5. all \o nothing = all
        <3> HIDE DEF all
        <3> QED
            BY <1>1, ConcatEmptySeq
    <2>6. CASE rlen' = 0
        <3>1. got' = Append(got, nothing) /\ rpc' = "head" /\ rbuf' = nothing
            BY <2>1, <2>6 DEF Received
        <3>2. nothing \in Message
            <4>1. Len(nothing) \in 0 .. MaxSize
                BY <1>0
            <4> HIDE DEF nothing
            <4> QED
                BY <1>0, <4>1, MessageIsSeq
        <3>3. Encoded(nothing) = SizeBytes(rlen') \o nothing
            BY <1>0, <2>6 DEF Encoded
        <3>4. Encoded(nothing) = Held \o bytes
            BY <1>4, <1>7, <2>4, <2>5, <3>3
        <3>5. Held' = nothing
            BY <3>1 DEF Held
        <3>6. Completes(bytes, nothing)
            BY <3>1, <3>4, <3>5 DEF Completes
        <3>7. ReadType
            BY <1>0, <2>4, <3>1 DEF ReadType
        <3> QED
            BY <3>2, <3>6, <3>7 DEF ReadOutcome
    <2>7. CASE rlen' # 0
        <3>1. rpc' = "body" /\ rbuf' = nothing /\ got' = got
            BY <2>1, <2>7
        <3>2. Held' = SizeBytes(rlen') \o nothing
            BY <3>1 DEF Held
        <3>3. Keeps(bytes)
            BY <1>4, <1>7, <2>4, <2>5, <3>1, <3>2 DEF Keeps
        <3>4. ReadType
            BY <1>0, <2>4, <2>7, <3>1 DEF ReadType
        <3> QED
            BY <3>3, <3>4 DEF ReadOutcome
    <2> QED
        BY <2>6, <2>7
<1>8. Missing \in Int
    BY <1>0 DEF Missing
<1> QED
    BY <1>0, <1>5, <1>6, <1>7, <1>8

(* Bytes that were read leave the connection, and a message that is then   *)
(* complete is the next one.                                               *)
LEMMA ReadKeeps ==
    ASSUME TransportInv, Read
    PROVE  /\ TransportInv'
           /\ \/ got' = got
              \/ \E m \in Message :
                    /\ got' = Append(got, m)
                    /\ ~torn => Len(got) < Len(sent) /\ m = sent[Len(got) + 1]
<1>0. TransportType /\ Unfinished
    BY DEF TransportInv
<1>1. /\ wire \in Seq(Byte) /\ Len(wire) \in Nat /\ rpc # "gone"
      /\ got \in Seq(Message) /\ sent \in Seq(Message)
    BY <1>0 DEF TransportType, Read
<1>2. PICK n \in 1 .. Min({Missing, Len(wire)}) :
         TakeBytes(Prefix(wire, n)) /\ wire' = Rest(wire, n)
    BY DEF Read
<1>3. n \in 1 .. Len(wire) /\ n <= Missing /\ n \in 0 .. Len(wire) /\ n > 0
    <2>1. Missing \in Int /\ Len(wire) \in Int
        BY <1>0, <1>1, MaxSizeType, TransportAssumption DEF Missing, TransportType
    <2> DEFINE k == Min({Missing, Len(wire)})
    <2>2. k \in Int /\ k <= Missing /\ k <= Len(wire)
        BY <2>1, MinOfTwo
    <2>3. n \in 1 .. k
        OBVIOUS
    <2> HIDE DEF k
    <2> QED
        BY <1>1, <2>1, <2>2, <2>3
<1>4. UNCHANGED <<spc, sbuf, smsg, sent, interrupts, torn>>
    BY DEF Read, sendVars
<1> DEFINE P == Prefix(wire, n)
           R == Rest(wire, n)
<1>5. /\ P \in Seq(Byte) /\ R \in Seq(Byte) /\ P \o R = wire /\ Len(P) = n
      /\ wire' = R /\ TakeBytes(P)
    <2>1. CutLaw(wire, n)
        BY <1>1, <1>3, CutStream
    <2> QED
        BY <1>2, <2>1 DEF CutLaw
<1> HIDE DEF P, R
<1>6. ReadType /\ ReadOutcome(P)
    BY <1>0, <1>1, <1>3, <1>5, ReadTakes
<1>7. got' \in Seq(Message)
    <2>1. CASE Keeps(P)
        BY <1>1, <2>1 DEF Keeps
    <2>2. ASSUME NEW m \in Message, Completes(P, m)
          PROVE  got' \in Seq(Message)
        <3>1. got' = Append(got, m)
            BY <2>2 DEF Completes
        <3> QED
            BY <1>1, <3>1, AppendProperties
    <2> QED
        BY <1>6, <2>1, <2>2 DEF ReadOutcome
<1>8. TransportType'
    BY <1>0, <1>4, <1>5, <1>6, <1>7 DEF TransportType, ReadType
<1>9. Unfinished'
    BY <1>0, <1>4, <1>6 DEF Unfinished, FirstByte, ReadType
<1> DEFINE S == Stream(got)
           H == Held
<1>10. S \in Seq(Byte) /\ H \in Seq(Byte) /\ Arrived = (S \o H) \o wire
    BY <1>0, ArrivedType DEF Arrived
<1>11. Stream(got') \o Held' = (S \o H) \o P
    <2>1. JoinLaw(S, H, P)
        <3> HIDE DEF S, H
        <3> QED
            BY <1>5, <1>10, Joined
    <2>2. CASE Keeps(P)
        <3>1. got' = got /\ Held' = H \o P
            BY <2>2 DEF Keeps
        <3>2. Stream(got') = S
            BY <3>1
        <3> QED
            BY <2>1, <3>1, <3>2, Zenon DEF JoinLaw
    <2>3. ASSUME NEW m \in Message, Completes(P, m)
          PROVE  Stream(got') \o Held' = (S \o H) \o P
        <3>1. got' = Append(got, m) /\ Held' = <<>> /\ Encoded(m) = H \o P
            BY <2>3 DEF Completes
        <3>2. Stream(Append(got, m)) = S \o Encoded(m)
            BY <1>1, StreamAppend
        <3>3. Stream(got') = (S \o H) \o P
            BY <2>1, <3>1, <3>2, Zenon DEF JoinLaw
        <3>4. Stream(got') \in Seq(Byte)
            BY <1>7, StreamType
        <3>5. Stream(got') \o <<>> = Stream(got')
            BY <3>4, ConcatEmptySeq
        <3> QED
            BY <3>1, <3>3, <3>5, Zenon
    <2> QED
        BY <1>6, <2>2, <2>3 DEF ReadOutcome
<1>12. Arrived' = Arrived
    <2>1. Arrived' = (Stream(got') \o Held') \o R
        BY <1>5 DEF Arrived
    <2> DEFINE T == S \o H
    <2>2. T \in Seq(Byte)
        BY <1>0, ArrivedType
    <2>3. Arrived' = (T \o P) \o R /\ Arrived = T \o wire
        BY <1>10, <1>11, <2>1
    <2> HIDE DEF T
    <2>4. JoinLaw(T, P, R)
        BY <1>5, <2>2, Joined
    <2> QED
        BY <1>5, <2>3, <2>4, Zenon DEF JoinLaw
<1>13. ASSUME ~torn
       PROVE  AllBytes'
    <2>1. PICK owed \in Seq(Byte) : /\ Arrived \o owed = Stream(sent)
                                    /\ spc # "gone" => owed = Unsent
        BY <1>1, <1>13 DEF TransportInv, AllBytes
    <2>2. Unsent' = Unsent /\ Stream(sent)' = Stream(sent) /\ spc' = spc
        BY <1>4 DEF Unsent, Pending, FirstByte
    <2>3. Arrived' \o owed = Stream(sent)' /\ (spc' # "gone" => owed = Unsent')
        BY <1>12, <2>1, <2>2
    <2> QED
        BY <2>3 DEF AllBytes
<1>14. ASSUME ~torn, NEW m \in Message, Completes(P, m)
       PROVE  Len(got) < Len(sent) /\ m = sent[Len(got) + 1]
    <2>1. PICK owed \in Seq(Byte) : Arrived \o owed = Stream(sent)
        BY <1>1, <1>14 DEF TransportInv, AllBytes
    <2>2. InOrder
        BY <1>14 DEF TransportInv
    <2> DEFINE rest == R \o owed
               e == Encoded(m)
    <2>3. /\ m \in Seq(Byte) /\ Len(m) \in 0 .. MaxSize /\ e \in Seq(Byte)
        BY EncodedType
    <2>4. e = H \o P
        BY <1>14 DEF Completes
    <2>5. Stream(sent) = S \o (e \o rest) /\ rest \in Seq(Byte)
        <3> HIDE DEF S, H, e
        <3>1. JoinLaw(P, R, owed)
            BY <1>5, Joined
        <3>2. wire \o owed = P \o rest /\ rest \in Seq(Byte)
            BY <1>5, <3>1, Zenon DEF JoinLaw
        <3> HIDE DEF rest
        <3> DEFINE T == S \o H
        <3>3. T \in Seq(Byte) /\ Arrived = T \o wire
            BY <1>10, ConcatProperties
        <3>4. JoinLaw(S, H, P)
            BY <1>5, <1>10, Joined
        <3>5. T \o P = S \o e
            BY <2>4, <3>4, Zenon DEF JoinLaw
        <3> HIDE DEF T
        <3>6. JoinLaw(T, wire, owed) /\ JoinLaw(T, P, rest)
            BY <1>1, <1>5, <3>2, <3>3, Joined
        <3>7. Stream(sent) = (T \o P) \o rest
            BY <2>1, <3>2, <3>3, <3>6, Zenon DEF JoinLaw
        <3>8. JoinLaw(S, e, rest)
            BY <1>10, <2>3, <3>2, Joined
        <3> QED
            BY <3>2, <3>5, <3>7, <3>8, Zenon DEF JoinLaw
    <2>6. e = SizeBytes(Len(m)) \o m
        BY DEF Encoded
    <2>7. SameFirst(sent, got, Len(got))
        BY <1>1, <2>2 DEF SameFirst, InOrder
    <2>8. Complete(got, sent, Len(m), m, rest)
        BY <2>3, <2>5, <2>6, <2>7, Zenon DEF Complete
    <2> HIDE DEF rest
    <2> QED
        BY <1>1, <2>3, <2>5, <2>8, NextMessage
<1>15. ASSUME ~torn
       PROVE  InOrder'
    <2>1. InOrder
        BY <1>15 DEF TransportInv
    <2>2. CASE Keeps(P)
        BY <1>4, <2>1, <2>2 DEF Keeps, InOrder
    <2>3. ASSUME NEW m \in Message, Completes(P, m)
          PROVE  InOrder'
        <3>1. Len(got) < Len(sent) /\ m = sent[Len(got) + 1]
            BY <1>14, <1>15, <2>3
        <3>2. got' = Append(got, m)
            BY <2>3 DEF Completes
        <3>3. /\ Len(got') = Len(got) + 1 /\ Len(got) \in Nat /\ Len(sent) \in Nat
              /\ \A i \in 1 .. Len(got) : got'[i] = got[i]
              /\ got'[Len(got) + 1] = m
            BY <1>1, <3>2, AppendProperties
        <3>4. ASSUME NEW i \in 1 .. Len(got')
              PROVE  got'[i] = sent[i]
            <4>1. CASE i = Len(got) + 1
                BY <3>1, <3>3, <4>1
            <4>2. CASE i # Len(got) + 1
                <5>1. i \in 1 .. Len(got)
                    BY <3>3, <4>2
                <5> QED
                    BY <2>1, <3>3, <5>1 DEF InOrder
            <4> QED
                BY <4>1, <4>2
        <3>5. Len(got') <= Len(sent)
            BY <3>1, <3>3
        <3> QED
            BY <1>4, <3>4, <3>5 DEF InOrder
    <2> QED
        BY <1>6, <2>2, <2>3 DEF ReadOutcome
<1>16. TransportInv'
    BY <1>4, <1>8, <1>9, <1>13, <1>15 DEF TransportInv
<1>17. CASE Keeps(P)
    BY <1>16, <1>17 DEF Keeps
<1>18. ASSUME NEW m \in Message, Completes(P, m)
       PROVE  \E k \in Message :
                 /\ got' = Append(got, k)
                 /\ ~torn => Len(got) < Len(sent) /\ k = sent[Len(got) + 1]
    BY <1>14, <1>18 DEF Completes
<1> QED
    BY <1>6, <1>16, <1>17, <1>18 DEF ReadOutcome

-----------------------------------------------------------------------------
(* The other steps move no byte.                                           *)

(* A step that leaves the bytes and the histories alone.                   *)
Quiet == UNCHANGED <<wire, sent, got, rlen>>

(* Such a step keeps what has arrived, and what was sent first.            *)
LEMMA QuietKeeps ==
    ASSUME TransportInv, Quiet, ~torn, rpc # "gone",
           Held' = Held, spc' # "gone" => spc # "gone" /\ Unsent' = Unsent
    PROVE  AllBytes'
<1>1. PICK owed \in Seq(Byte) : /\ Arrived \o owed = Stream(sent)
                                /\ spc # "gone" => owed = Unsent
    BY DEF TransportInv, AllBytes
<1>2. Arrived' = Arrived /\ Stream(sent)' = Stream(sent)
    BY DEF Arrived, Quiet
<1>3. Arrived' \o owed = Stream(sent)' /\ (spc' # "gone" => owed = Unsent')
    BY <1>1, <1>2
<1> QED
    BY <1>3 DEF AllBytes

(* A message is sent, from its first byte on.                              *)
LEMMA StartSendKeeps ==
    ASSUME TransportInv, NEW msg \in Msgs, StartSend(msg)
    PROVE  TransportInv'
<1>0. TransportType /\ Unfinished
    BY DEF TransportInv
<1>1. /\ spc = "idle" /\ spc' = "head" /\ sbuf' = SizeBytes(Len(msg)) /\ smsg' = msg
      /\ UNCHANGED <<sent, rpc, rbuf, rlen, got, wire, interrupts, torn>>
    BY DEF StartSend, recvVars
<1>2. msg \in Message
    BY TransportAssumption
<1>3. Len(msg) \in Nat
    BY <1>2, EncodedType
<1>4. sbuf' \in Seq(Byte) /\ Len(sbuf') = HeadLen
    BY <1>1, <1>3, SizeBytesType
<1>5. TransportType'
    BY <1>0, <1>1, <1>2, <1>4 DEF TransportType
<1>6. Unfinished'
    BY <1>0, <1>1, <1>4, TransportAssumption DEF Unfinished, FirstByte
<1>7. Unsent = <<>> /\ Unsent' = <<>>
    BY <1>1, <1>4 DEF Unsent, Pending, FirstByte
<1>8. ~torn' /\ rpc' # "gone" => AllBytes'
    <2>1. Held' = Held /\ Quiet
        BY <1>1 DEF Held, Quiet
    <2> QED
        BY <1>1, <1>7, <2>1, QuietKeeps
<1>9. ~torn' => InOrder'
    BY <1>1 DEF TransportInv, InOrder
<1> QED
    BY <1>5, <1>6, <1>8, <1>9 DEF TransportInv

(* A side gives the connection up, or leaves.                              *)
LEMMA LeaveKeeps ==
    ASSUME TransportInv, WriteFails \/ SenderLeaves \/ ReadFails \/ ReceiverLeaves
    PROVE  TransportInv' /\ UNCHANGED <<sent, got, torn>>
<1>0. TransportType /\ Unfinished
    BY DEF TransportInv
<1>1. /\ UNCHANGED <<sbuf, smsg, sent, rbuf, rlen, got, wire, interrupts, torn>>
      /\ \/ spc' = "gone" /\ rpc' = rpc
         \/ spc' = spc /\ rpc' = "gone"
    BY DEF WriteFails, SenderLeaves, ReadFails, ReceiverLeaves, sendVars, recvVars
<1>2. TransportType'
    BY <1>0, <1>1 DEF TransportType
<1>3. Unfinished'
    BY <1>0, <1>1 DEF Unfinished, FirstByte
<1>4. ~torn' /\ rpc' # "gone" => AllBytes'
    <2> SUFFICES ASSUME ~torn', rpc' # "gone"
                 PROVE  AllBytes'
        OBVIOUS
    <2>1. spc' = "gone" /\ rpc' = rpc /\ Quiet /\ ~torn
        BY <1>1 DEF Quiet
    <2>2. Held' = Held
        BY <1>1, <2>1 DEF Held
    <2> QED
        BY <2>1, <2>2, QuietKeeps
<1>5. ~torn' => InOrder'
    BY <1>1 DEF TransportInv, InOrder
<1> QED
    BY <1>1, <1>2, <1>3, <1>4, <1>5 DEF TransportInv

(* A signal between two messages does not show; in one it tears it.        *)
LEMMA InterruptKeeps ==
    ASSUME TransportInv, WriteInterrupted \/ ReadInterrupted
    PROVE  TransportInv' /\ UNCHANGED <<sent, got>> /\ (torn' = torn \/ torn' = TRUE)
<1>0. TransportType /\ Unfinished
    BY DEF TransportInv
<1>1. CASE WriteInterrupted
    <2>1. /\ spc \in {"head", "body"} /\ torn' = (torn \/ ~FirstByte)
          /\ interrupts' = interrupts + 1 /\ spc' = "idle" /\ sbuf' = <<>>
          /\ UNCHANGED <<smsg, sent, rpc, rbuf, rlen, got, wire>>
        BY <1>1 DEF WriteInterrupted, recvVars
    <2>2. TransportType'
        <3>1. torn' \in BOOLEAN /\ sbuf' \in Seq(Byte) /\ interrupts' \in Nat
            BY <1>0, <2>1 DEF TransportType
        <3> QED
            BY <1>0, <2>1, <3>1 DEF TransportType
    <2>3. Unfinished'
        BY <1>0, <2>1 DEF Unfinished, FirstByte
    <2>4. ~torn' => ~torn /\ FirstByte
        BY <1>0, <2>1 DEF TransportType
    <2>5. ~torn' /\ rpc' # "gone" => AllBytes'
        <3> SUFFICES ASSUME ~torn', rpc' # "gone"
                     PROVE  AllBytes'
            OBVIOUS
        <3>1. ~torn /\ FirstByte /\ rpc # "gone" /\ Quiet
            BY <2>1, <2>4 DEF Quiet
        <3>2. Unsent = <<>> /\ Unsent' = <<>> /\ spc # "gone"
            BY <2>1, <3>1 DEF Unsent, Pending, FirstByte
        <3>3. Held' = Held
            BY <2>1 DEF Held
        <3> QED
            BY <3>1, <3>2, <3>3, QuietKeeps
    <2>6. ~torn' => InOrder'
        BY <2>1, <2>4 DEF TransportInv, InOrder
    <2>7. torn' = torn \/ torn' = TRUE
        BY <1>0, <2>1 DEF TransportType
    <2> QED
        BY <2>1, <2>2, <2>3, <2>5, <2>6, <2>7 DEF TransportInv
<1>2. CASE ReadInterrupted
    <2>1. /\ rpc # "gone" /\ torn' = (torn \/ rpc = "body" \/ rbuf # <<>>)
          /\ interrupts' = interrupts + 1 /\ rpc' = "head" /\ rbuf' = <<>>
          /\ UNCHANGED <<rlen, got, spc, sbuf, smsg, sent, wire>>
        BY <1>2 DEF ReadInterrupted, sendVars
    <2>2. TransportType'
        <3>1. torn' \in BOOLEAN /\ rbuf' \in Seq(Byte) /\ interrupts' \in Nat
            BY <1>0, <2>1 DEF TransportType
        <3> QED
            BY <1>0, <2>1, <3>1 DEF TransportType
    <2>3. Unfinished'
        <3>1. Len(rbuf') = 0 /\ HeadLen \in Nat \ {0}
            BY <2>1, TransportAssumption
        <3> QED
            BY <1>0, <2>1, <3>1 DEF Unfinished, FirstByte
    <2>4. ~torn' => ~torn /\ rpc = "head" /\ rbuf = <<>>
        BY <1>0, <2>1 DEF TransportType
    <2>5. ~torn' /\ rpc' # "gone" => AllBytes'
        <3> SUFFICES ASSUME ~torn'
                     PROVE  AllBytes'
            OBVIOUS
        <3>1. ~torn /\ rpc = "head" /\ rbuf = <<>> /\ Quiet
            BY <2>1, <2>4 DEF Quiet
        <3>2. Held' = Held
            BY <2>1, <3>1 DEF Held
        <3>3. Unsent' = Unsent /\ spc' = spc
            BY <2>1 DEF Unsent, Pending, FirstByte
        <3> QED
            BY <2>1, <3>1, <3>2, <3>3, QuietKeeps
    <2>6. ~torn' => InOrder'
        BY <2>1, <2>4 DEF TransportInv, InOrder
    <2>7. torn' = torn \/ torn' = TRUE
        BY <1>0, <2>1 DEF TransportType
    <2> QED
        BY <2>1, <2>2, <2>3, <2>5, <2>6, <2>7 DEF TransportInv
<1> QED
    BY <1>1, <1>2

(* Nothing was sent yet.                                                   *)
LEMMA TransportInit == Init => TransportInv
<1> SUFFICES ASSUME Init
             PROVE  TransportInv
    OBVIOUS
<1> DEFINE nothing == <<>>
<1>1. /\ spc = "idle" /\ sbuf = nothing /\ smsg = nothing /\ sent = nothing
      /\ rpc = "head" /\ rbuf = nothing /\ rlen = 0 /\ got = nothing
      /\ wire = nothing /\ interrupts = 0 /\ torn = FALSE
    BY DEF Init
<1>2. /\ nothing \in Seq(Byte) /\ nothing \in Seq(Message) /\ Len(nothing) = 0
      /\ nothing \o nothing = nothing
    <2>1. nothing \in Seq(Byte) /\ nothing \in Seq(Message) /\ Len(nothing) = 0
        OBVIOUS
    <2>2. nothing \o nothing = nothing
        BY <2>1, ConcatEmptySeq
    <2> QED
        BY <2>1, <2>2
<1> HIDE DEF nothing
<1>3. nothing \in Message /\ 0 \in 0 .. MaxSize
    <2>1. 0 \in 0 .. MaxSize
        BY MaxSizeType
    <2>2. nothing \in Seq(Byte) /\ Len(nothing) \in 0 .. MaxSize
        BY <1>2, <2>1
    <2>3. nothing \in Message
        BY <2>2, MessageIsSeq
    <2> QED
        BY <2>1, <2>3
<1>4. TransportType
    BY <1>1, <1>2, <1>3 DEF TransportType
<1>5. Unfinished
    BY <1>1, <1>2, TransportAssumption DEF Unfinished, FirstByte
<1>6. InOrder
    BY <1>1, <1>2 DEF InOrder
<1>7. Stream(nothing) = nothing
    BY <1>2, StreamsLaw DEF LawOfStreams, Stream, nothing
<1>8. Held = nothing /\ Unsent = nothing
    BY <1>1 DEF Held, Unsent, Pending, FirstByte, nothing
<1>9. Arrived \o nothing = Stream(sent)
    BY <1>1, <1>2, <1>7, <1>8, Zenon DEF Arrived
<1>10. AllBytes
    BY <1>2, <1>8, <1>9 DEF AllBytes
<1> QED
    BY <1>4, <1>5, <1>6, <1>10 DEF TransportInv

(* Every step keeps the invariant.                                         *)
LEMMA TransportStep == TransportInv /\ [Next]_vars => TransportInv'
<1> SUFFICES ASSUME TransportInv, [Next]_vars
             PROVE  TransportInv'
    OBVIOUS
<1>1. ASSUME NEW m \in Msgs, StartSend(m)
      PROVE  TransportInv'
    BY <1>1, StartSendKeeps
<1>2. CASE Write
    BY <1>2, WriteKeeps
<1>3. CASE WriteFails \/ SenderLeaves \/ ReadFails \/ ReceiverLeaves
    BY <1>3, LeaveKeeps
<1>4. CASE WriteInterrupted \/ ReadInterrupted
    BY <1>4, InterruptKeeps
<1>5. CASE Read
    BY <1>5, ReadKeeps
<1>6. CASE UNCHANGED vars
    BY <1>6 DEF vars, sendVars, recvVars, TransportInv, TransportType, Unfinished,
       FirstByte, InOrder, AllBytes, Arrived, Held, Unsent, Pending
<1> QED
    BY <1>1, <1>2, <1>3, <1>4, <1>5, <1>6 DEF Next

(* Every reachable state satisfies the invariant: the types of both sides, *)
(* loops of read_mult and write_mult that still have something to do, and  *)
(* bytes and messages in order.                                            *)
THEOREM TransportInvariant == Spec => []TransportInv
    BY TransportInit, TransportStep, PTL DEF Spec

(* No byte is lost, doubled or moved by tcp-transfer.cc, however send()    *)
(* and read() cut the stream.                                              *)
THEOREM TransportConservesBytes == Spec => []BytesConserved
<1>1. TransportInv => BytesConserved
    <2> SUFFICES ASSUME TransportInv, ~torn, rpc # "gone"
                 PROVE  IsPrefix((Stream(got) \o Held) \o wire, Stream(sent))
        BY DEF BytesConserved
    <2>1. PICK owed \in Seq(Byte) : Arrived \o owed = Stream(sent)
        BY DEF TransportInv, AllBytes
    <2>2. Arrived \in Seq(Byte)
        BY ArrivedType DEF TransportInv
    <2> DEFINE A == Arrived
               l == Len(A)
    <2>3. A = (Stream(got) \o Held) \o wire /\ A \in Seq(Byte) /\ l \in Nat
        BY <2>2 DEF Arrived
    <2> HIDE DEF A
    <2>4. Len(A \o owed) = l + Len(owed) /\ Len(owed) \in Nat /\ A \o owed \in Seq(Byte)
        BY <2>3, ConcatProperties
    <2>5. SubSeq(A, 1, l) = SubSeq(A \o owed, 1, l)
        <3>1. \A i \in 1 .. l : A[i] \in Byte /\ (A \o owed)[i] = A[i]
            BY <2>3, <2>4, ConcatProperties
        <3> DEFINE t == A \o owed
        <3>2. \A i \in 1 .. l : t[i] \in Byte /\ t[i] = A[i]
            BY <3>1
        <3> HIDE DEF t
        <3>3. SubSeq(A, 1, l) = [i \in 1 .. l |-> A[i]]
            BY <2>3
        <3>4. SubSeq(t, 1, l) = [i \in 1 .. l |-> t[i]]
            BY <2>3, <2>4 DEF t
        <3> QED
            BY <3>2, <3>3, <3>4 DEF t
    <2>6. IsPrefix(A, A \o owed)
        BY <2>3, <2>4, <2>5 DEF IsPrefix
    <2>7. A \o owed = Stream(sent)
        BY <2>1 DEF A
    <2> QED
        BY <2>3, <2>6, <2>7
<1> QED
    BY <1>1, TransportInvariant, PTL

(* send_data_tcp and recv_data_tcp implement a channel of whole messages:  *)
(* what recv_data_tcp returns is the next message that send_data_tcp was   *)
(* given, for messages of every length that a msg_size_t can hold and      *)
(* however the stream is cut, until a signal tears a message.              *)
THEOREM TransportImplementsChannel == Spec => ImplementsChannel
<1>1. Init => C!Init
    BY DEF Init, C!Init
<1>2. TransportInv /\ [Next]_vars => [C!Next]_(C!channelVars)
    <2> SUFFICES ASSUME TransportInv, [Next]_vars
                 PROVE  [C!Next]_(C!channelVars)
        OBVIOUS
    <2>0. TransportType
        BY DEF TransportInv
    <2>1. ASSUME NEW m \in Msgs, StartSend(m)
          PROVE  UNCHANGED <<sent, got, torn>>
        BY <2>1 DEF StartSend, recvVars
    <2>2. CASE Write
        <3>1. /\ sent' = (IF FirstByte THEN Append(sent, smsg) ELSE sent)
              /\ UNCHANGED <<got, torn>>
            BY <2>2 DEF Write, recvVars
        <3>2. CASE FirstByte
            <4>1. smsg \in Message /\ sent' = Append(sent, smsg)
                BY <2>0, <3>1, <3>2 DEF TransportType
            <4>2. C!Send
                BY <3>1, <4>1 DEF C!Send
            <4> QED
                BY <4>2 DEF C!Next
        <3>3. CASE ~FirstByte
            BY <3>1, <3>3 DEF C!channelVars
        <3> QED
            BY <3>2, <3>3
    <2>3. CASE WriteFails \/ SenderLeaves \/ ReadFails \/ ReceiverLeaves
        BY <2>3, LeaveKeeps DEF C!channelVars
    <2>4. CASE WriteInterrupted \/ ReadInterrupted
        <3>1. UNCHANGED <<sent, got>> /\ (torn' = torn \/ torn' = TRUE)
            BY <2>4, InterruptKeeps
        <3> QED
            BY <3>1 DEF C!Next, C!Tear, C!channelVars
    <2>5. CASE Read
        <3>1. UNCHANGED <<sent, torn>>
            BY <2>5 DEF Read, sendVars
        <3>2. CASE got' = got
            BY <3>1, <3>2 DEF C!channelVars
        <3>3. CASE got' # got
            <4>1. PICK m \in Message :
                     /\ got' = Append(got, m)
                     /\ ~torn => Len(got) < Len(sent) /\ m = sent[Len(got) + 1]
                BY <2>5, <3>3, ReadKeeps
            <4>2. CASE torn
                <5>1. C!Garbage
                    BY <3>1, <4>1, <4>2 DEF C!Garbage
                <5> QED
                    BY <5>1 DEF C!Next
            <4>3. CASE ~torn
                <5>1. C!Deliver
                    BY <3>1, <4>1, <4>3 DEF C!Deliver
                <5> QED
                    BY <5>1 DEF C!Next
            <4> QED
                BY <4>2, <4>3
        <3> QED
            BY <3>2, <3>3
    <2>6. CASE UNCHANGED vars
        BY <2>6 DEF vars, sendVars, recvVars, C!channelVars
    <2> QED
        BY <2>1, <2>2, <2>3, <2>4, <2>5, <2>6 DEF Next, C!channelVars
<1> QED
    BY <1>1, <1>2, TransportInvariant, PTL DEF Spec, ImplementsChannel, C!Spec

=============================================================================
