----------------------------- MODULE Transport -----------------------------
(***************************************************************************)
(* Messages over a TCP connection: src/mess/tcp-transfer.cc.  A message is *)
(* its length, in a fixed number of bytes, then its bytes.  The system     *)
(* takes and gives as many bytes as it likes at a time.  Both directions   *)
(* of a connection are the same; this is one of them.                      *)
(*                                                                         *)
(* A signal makes a blocked read() or send() fail.  The client that gets   *)
(* it goes on with the connection (odb-cli/cli.cc:82-92), wherever in a    *)
(* message it was.                                                         *)
(***************************************************************************)
EXTENDS Naturals, Sequences, SequencesExt, FiniteSetsExt

CONSTANTS
    ByteMod,       \* values of a byte
    HeadLen,       \* sizeof(msg_size_t)
    Msgs,          \* the messages that are sent
    WireCap,       \* bytes that fit into the connection
    MaxMsgs,       \* bound: messages sent
    MaxInterrupts  \* bound: signals

VARIABLES
    spc,        \* sender: "idle", "head" or "body" (in which write_mult it is)
                \* or "gone" (it closed, or gave the connection up)
    sbuf,       \* what write_mult has left to write
    smsg,       \* the message of send_data_tcp
    wire,       \* bytes under way
    rpc,        \* receiver: "head", "body" or "gone"
    rbuf,       \* what read_mult has read so far
    rlen,       \* size
    interrupts, \* signals so far
    sent,       \* history: messages of which a byte was written
    got,        \* history: messages that recv_data_tcp returned
    torn        \* history: did a signal hit the middle of a message?

sendVars == <<spc, sbuf, smsg, sent>>
recvVars == <<rpc, rbuf, rlen, got>>
vars     == <<sendVars, recvVars, wire, interrupts, torn>>

Prefix(s, n) == SubSeq(s, 1, n)
Rest(s, n)   == SubSeq(s, n + 1, Len(s))

-----------------------------------------------------------------------------
(* The length of a message as bytes, lowest first, and back.               *)

Byte == 0 .. ByteMod - 1

(* A number without its lowest byte, without its two lowest ones, ...      *)
Shifts(n) ==
    LET q[i \in 0 .. HeadLen] == IF i = 0 THEN n ELSE q[i - 1] \div ByteMod IN q

SizeBytes(n) == [i \in 1 .. HeadLen |-> Shifts(n)[i - 1] % ByteMod]

(* The number of the i highest bytes, for each i.                          *)
Highest(bytes) ==
    LET v[i \in 0 .. HeadLen] ==
            IF i = 0 THEN 0 ELSE ByteMod * v[i - 1] + bytes[HeadLen + 1 - i]
    IN  v

SizeOf(bytes) == Highest(bytes)[HeadLen]

(* The largest msg_size_t.                                                 *)
MaxSize == SizeOf([i \in 1 .. HeadLen |-> ByteMod - 1])

Message == UNION {[1 .. n -> Byte] : n \in 0 .. MaxSize}

ASSUME TransportAssumption ==
    /\ ByteMod \in Nat \ {0, 1} /\ HeadLen \in Nat \ {0}
    /\ Msgs \subseteq Message
    /\ WireCap \in Nat \ {0} /\ MaxMsgs \in Nat /\ MaxInterrupts \in Nat

-----------------------------------------------------------------------------
(* send_data_tcp.                                                          *)

StartSend(m) ==
    /\ spc = "idle" /\ Len(sent) < MaxMsgs
    /\ spc' = "head" /\ sbuf' = SizeBytes(Len(m)) /\ smsg' = m
    /\ UNCHANGED <<sent, recvVars, wire, interrupts, torn>>

FirstByte == spc = "head" /\ Len(sbuf) = HeadLen

(* Mutant of Written: what one send() did not take is left out.            *)
MutWritten(n) ==
    IF spc = "head" THEN spc' = "body" /\ sbuf' = smsg
    ELSE spc' = "idle" /\ sbuf' = <<>>

(* write_mult goes on with what one send() did not take; the first is      *)
(* followed by the second, which has nothing to do for an empty message.   *)
Written(n) ==
    CASE n < Len(sbuf) -> spc' = spc /\ sbuf' = Rest(sbuf, n)
      [] n = Len(sbuf) /\ spc = "head" /\ smsg # <<>> -> spc' = "body" /\ sbuf' = smsg
      [] OTHER -> spc' = "idle" /\ sbuf' = <<>>

Write ==
    /\ spc \in {"head", "body"} /\ rpc # "gone"
    /\ \E n \in 1 .. Min({Len(sbuf), WireCap - Len(wire)}) :
          wire' = wire \o Prefix(sbuf, n) /\ Written(n)
    /\ sent' = IF FirstByte THEN Append(sent, smsg) ELSE sent
    /\ UNCHANGED <<smsg, recvVars, interrupts, torn>>

(* The other side is gone: send() fails, and the connection is given up.   *)
WriteFails ==
    /\ spc \in {"head", "body"} /\ rpc = "gone"
    /\ spc' = "gone"
    /\ UNCHANGED <<sbuf, smsg, sent, recvVars, wire, interrupts, torn>>

(* The signal arrives while send() waits for room.                         *)
WriteInterrupted ==
    /\ spc \in {"head", "body"} /\ Len(wire) = WireCap
    /\ interrupts < MaxInterrupts
    /\ interrupts' = interrupts + 1
    /\ torn' = (torn \/ ~FirstByte)
    /\ spc' = "idle" /\ sbuf' = <<>>
    /\ UNCHANGED <<smsg, sent, recvVars, wire>>

SenderLeaves ==
    /\ spc # "gone"
    /\ spc' = "gone"
    /\ UNCHANGED <<sbuf, smsg, sent, recvVars, wire, interrupts, torn>>

-----------------------------------------------------------------------------
(* recv_data_tcp.                                                          *)

(* Mutant of Missing: the body ends with a byte more.                      *)
MutMissing == IF rpc = "head" THEN HeadLen - Len(rbuf) ELSE rlen + 1 - Len(rbuf)

Missing == IF rpc = "head" THEN HeadLen - Len(rbuf) ELSE rlen - Len(rbuf)

Received(m) == got' = Append(got, m) /\ rpc' = "head" /\ rbuf' = <<>>

(* Mutant of TakeBytes: no wait for the rest of the body.                  *)
MutTakeBytes(bytes) ==
    LET all == rbuf \o bytes IN
    CASE rpc = "body" -> Received(all) /\ UNCHANGED rlen
      [] rpc = "head" /\ Len(bytes) < Missing -> rbuf' = all /\ UNCHANGED <<rpc, rlen, got>>
      [] OTHER ->
           /\ rlen' = SizeOf(all)
           /\ IF rlen' = 0 THEN Received(<<>>)
              ELSE rpc' = "body" /\ rbuf' = <<>> /\ UNCHANGED got

(* read_mult waits for all of its bytes.                                   *)
TakeBytes(bytes) ==
    LET all == rbuf \o bytes IN
    CASE Len(bytes) < Missing -> rbuf' = all /\ UNCHANGED <<rpc, rlen, got>>
      [] Len(bytes) = Missing /\ rpc = "body" -> Received(all) /\ UNCHANGED rlen
      [] OTHER ->
           /\ rlen' = SizeOf(all)
           /\ IF rlen' = 0 THEN Received(<<>>)
              ELSE rpc' = "body" /\ rbuf' = <<>> /\ UNCHANGED got

Read ==
    /\ rpc # "gone"
    /\ \E n \in 1 .. Min({Missing, Len(wire)}) :
          TakeBytes(Prefix(wire, n)) /\ wire' = Rest(wire, n)
    /\ UNCHANGED <<sendVars, interrupts, torn>>

(* End of the stream: read() returns 0.                                    *)
ReadFails ==
    /\ rpc # "gone" /\ wire = <<>> /\ spc = "gone"
    /\ rpc' = "gone"
    /\ UNCHANGED <<rbuf, rlen, got, sendVars, wire, interrupts, torn>>

(* The signal arrives while read() waits for bytes.                        *)
ReadInterrupted ==
    /\ rpc # "gone" /\ wire = <<>>
    /\ interrupts < MaxInterrupts
    /\ interrupts' = interrupts + 1
    /\ torn' = (torn \/ rpc = "body" \/ rbuf # <<>>)
    /\ rpc' = "head" /\ rbuf' = <<>>
    /\ UNCHANGED <<rlen, got, sendVars, wire>>

ReceiverLeaves ==
    /\ rpc # "gone"
    /\ rpc' = "gone"
    /\ UNCHANGED <<rbuf, rlen, got, sendVars, wire, interrupts, torn>>

-----------------------------------------------------------------------------
Init ==
    /\ spc = "idle" /\ sbuf = <<>> /\ smsg = <<>> /\ sent = <<>>
    /\ rpc = "head" /\ rbuf = <<>> /\ rlen = 0 /\ got = <<>>
    /\ wire = <<>> /\ interrupts = 0 /\ torn = FALSE

Next ==
    \/ \E m \in Msgs : StartSend(m)
    \/ Write \/ WriteFails \/ WriteInterrupted \/ SenderLeaves
    \/ Read \/ ReadFails \/ ReadInterrupted \/ ReceiverLeaves

(* Loops of write_mult and read_mult, and TCP between them.                *)
Fairness == WF_vars(Write) /\ WF_vars(WriteFails) /\ WF_vars(Read) /\ WF_vars(ReadFails)

Spec == Init /\ [][Next]_vars /\ Fairness

-----------------------------------------------------------------------------
(* Properties.                                                             *)

Encoded(m) == SizeBytes(Len(m)) \o m

(* The bytes of the first message, of the first two, ...                   *)
Streams(msgs) ==
    LET s[i \in 0 .. Len(msgs)] ==
            IF i = 0 THEN <<>> ELSE s[i - 1] \o Encoded(msgs[i])
    IN  s

Stream(msgs) == Streams(msgs)[Len(msgs)]

(* What read_mult and recv_data_tcp hold of the message under way.         *)
Held == IF rpc = "head" THEN rbuf ELSE SizeBytes(rlen) \o rbuf

(* No byte is lost, doubled or moved, however writes and reads are cut:    *)
(* the messages received, the part of one that is held and the bytes under *)
(* way are together what was sent so far (tcp-transfer.cc:18-42, 46-104).  *)
(* A signal in the middle of a message ends that.                          *)
BytesConserved ==
    ~torn /\ rpc # "gone" => IsPrefix(Stream(got) \o Held \o wire, Stream(sent))

(* send_data_tcp and recv_data_tcp make a channel of whole messages out of *)
(* the stream of bytes; short writes and reads, a connection lost at any   *)
(* byte and signals between messages do not show.                          *)
C == INSTANCE Channel
ImplementsChannel == C!Spec

(* A message that is being sent arrives, unless a side leaves or a signal  *)
(* tore a message apart: no write waits for ever for room, and no read for *)
(* bytes that are there (tcp-transfer.cc:19-26, 32-39).                    *)
MessageArrives ==
    \A n \in 1 .. MaxMsgs :
       Len(sent) >= n ~> Len(got) >= n \/ torn \/ spc = "gone" \/ rpc = "gone"
=============================================================================
