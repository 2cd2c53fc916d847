------------------------- MODULE RequestCycleProofs -------------------------
(***************************************************************************)
(* Proofs about module RequestCycle, for any number of requests: the two   *)
(* threads of the server never own a buffer together, answers reach the    *)
(* client in order, and the whole implements one-at-a-time remote calls.   *)
(***************************************************************************)
EXTENDS RequestCycle, TLAPS

(* The program counter of the network thread determines _state, up to the  *)
(* one change the VM's thread makes; and the connection is accepted before *)
(* anything is received.                                                   *)
Control ==
    /\ rpc \in {"off", "bind", "accept"} => rstate = "CONNECTING"
    /\ rpc = "recv" => rstate = "NO_REQ"
    /\ rpc = "wait" => rstate \in {"HAS_REQ", "SENDING_RES"}
    /\ rpc = "send" => rstate = "SENDING_RES"
    /\ rpc = "end"  => rstate = "ERROR"
    /\ serving => rpc = "wait" /\ rstate = "HAS_REQ"
    /\ rpc \in {"recv", "wait", "send"} => link \in {"open", "closed"}
    /\ cli = "gone" <=> link = "closed"

(* Of the four places a message can be in, at most one is occupied, by the *)
(* request asked last or its answer.                                       *)
AtRest     == toServ = <<>> /\ inBuf = <<>> /\ outBuf = <<>> /\ toCli = <<>>
              /\ answered <= executed /\ executed <= asked
OnTheWay   == toServ = <<asked>> /\ inBuf = <<>> /\ outBuf = <<>> /\ toCli = <<>>
              /\ answered = executed /\ executed + 1 = asked
Received   == toServ = <<>> /\ inBuf = <<asked>> /\ outBuf = <<>> /\ toCli = <<>>
              /\ answered = executed /\ executed + 1 = asked
Answered   == toServ = <<>> /\ inBuf = <<>> /\ outBuf = <<asked>> /\ toCli = <<>>
              /\ answered + 1 = asked /\ executed = asked
OnTheWayBack == toServ = <<>> /\ inBuf = <<>> /\ outBuf = <<>> /\ toCli = <<asked>>
              /\ answered + 1 = asked /\ executed = asked

OnePlace ==
    /\ AtRest \/ OnTheWay \/ Received \/ Answered \/ OnTheWayBack
    /\ rstate = "HAS_REQ" => Received
    /\ rstate = "SENDING_RES" => Answered
    /\ cli = "idle" => AtRest /\ answered = asked
    /\ cli = "waiting" => ~AtRest

(* The types that OnePlace does not fix.                                   *)
Types ==
    /\ rpc \in {"off", "bind", "accept", "recv", "wait", "send", "end"}
    /\ rstate \in RunnerState
    /\ rstop \in BOOLEAN
    /\ serving \in BOOLEAN
    /\ link \in {"none", "pending", "open", "closed"}
    /\ cli \in {"idle", "waiting", "gone"}
    /\ asked \in Nat /\ answered \in Nat /\ executed \in Nat

CycleInv == Types /\ Control /\ OnePlace

(* One message in a queue or a buffer.                                     *)
LEMMA OneMessage ==
    ASSUME NEW m
    PROVE  /\ Head(<<m>>) = m /\ Tail(<<m>>) = <<>> /\ <<m>>[1] = m
           /\ Append(<<>>, m) = <<m>> /\ <<>> \o <<m>> = <<m>>
           /\ <<m>> # <<>>
OBVIOUS

-----------------------------------------------------------------------------
(* Each step moves the one message from one place to the next, or none:    *)
(* the steps of the network thread (data-client-handler.cc:69-100).        *)
LEMMA RunnerKeeps ==
    ASSUME CycleInv, Runner
    PROVE  CycleInv'
<1> USE DEF CycleInv, Types, Control, OnePlace, AtRest, OnTheWay, Received,
            Answered, OnTheWayBack
<1>0. UNCHANGED <<cli, asked, answered, executed>>
    BY DEF Runner
<1>1. CASE RunnerListen
    BY <1>0, <1>1 DEF RunnerListen, bufVars, netVars
<1>2. CASE RunnerAccept
    BY <1>0, <1>2 DEF RunnerAccept, bufVars, RunnerState
<1>3. CASE RunnerRecv
    <2>1. OnTheWay
        BY <1>3 DEF RunnerRecv
    <2>2. Received'
        BY <1>0, <1>3, <2>1, OneMessage DEF RunnerRecv
    <2>3. Types' /\ Control'
        BY <1>0, <1>3 DEF RunnerRecv, RunnerState
    <2>4. cli # "idle"
        BY <2>1, OneMessage
    <2> QED
        BY <1>0, <1>3, <2>2, <2>3, <2>4, OneMessage DEF RunnerRecv
<1>4. CASE RunnerSeesAnswer
    BY <1>0, <1>4 DEF RunnerSeesAnswer, bufVars, netVars
<1>5. CASE RunnerSend
    <2>1. Answered
        BY <1>5 DEF RunnerSend
    <2>2. cli # "idle"
        BY <2>1, OneMessage
    <2>3. Types' /\ Control'
        BY <1>0, <1>5 DEF RunnerSend, RunnerState
    <2>4. CASE link = "open"
        <3>1. OnTheWayBack'
            BY <1>0, <1>5, <2>1, <2>4, OneMessage DEF RunnerSend
        <3> QED
            BY <1>0, <1>5, <2>2, <2>3, <3>1, OneMessage DEF RunnerSend
    <2>5. CASE link = "closed"
        <3>1. AtRest'
            BY <1>0, <1>5, <2>1, <2>5 DEF RunnerSend
        <3>2. cli = "gone"
            BY <2>5
        <3> QED
            BY <1>0, <1>5, <2>3, <3>1, <3>2 DEF RunnerSend
    <2> QED
        BY <1>5, <2>4, <2>5 DEF RunnerSend
<1>6. CASE RunnerFails /\ rpc # "wait"
    <2>1. Types' /\ Control'
        BY <1>0, <1>6 DEF RunnerFails, bufVars, netVars, RunnerState
    <2> QED
        BY <1>0, <1>6, <2>1 DEF RunnerFails, bufVars, netVars
<1> QED
    BY <1>1, <1>2, <1>3, <1>4, <1>5, <1>6
    DEF Runner, RunnerStep, RunnerListenFails, RunnerAcceptFails, RunnerRecvFails,
        RunnerSendFails

(* The same for the VM's thread: setup_connection, taking a request and    *)
(* signal_res (data-client-handler.cc:119-132, 64-67).                     *)
LEMMA ServerKeeps ==
    ASSUME CycleInv, FirstSetup \/ Take \/ Answer
    PROVE  CycleInv'
<1> USE DEF CycleInv, Types, Control, OnePlace, AtRest, OnTheWay, Received,
            Answered, OnTheWayBack
<1>1. CASE FirstSetup
    BY <1>1 DEF FirstSetup, RunnerStart, bufVars, netVars, RunnerState
<1>2. CASE Take
    BY <1>2 DEF Take, TakeRequest, threadVars, bufVars, netVars
<1>3. CASE Answer
    <2>1. Received
        BY <1>3 DEF Answer, SignalRes
    <2>2. cli # "idle"
        BY <2>1, OneMessage
    <2>3. Answered'
        BY <1>3, <2>1, OneMessage DEF Answer, SignalRes, netVars
    <2>4. Types' /\ Control'
        BY <1>3 DEF Answer, SignalRes, netVars, RunnerState
    <2> QED
        BY <1>3, <2>2, <2>3, <2>4, OneMessage DEF Answer, SignalRes, netVars
<1> QED
    BY <1>1, <1>2, <1>3

(* The same for the client, that sends only when nothing of it is on the   *)
(* way (db-client-impl-data.cc:29-44).                                     *)
LEMMA ClientKeeps ==
    ASSUME CycleInv, ClientConnects \/ ClientAsks \/ ClientReads \/ ClientLeaves
    PROVE  CycleInv'
<1> USE DEF CycleInv, Types, Control, OnePlace, AtRest, OnTheWay, Received,
            Answered, OnTheWayBack
<1>1. CASE ClientConnects
    BY <1>1 DEF ClientConnects, NetConnect, threadVars, bufVars
<1>2. CASE ClientAsks
    <2>1. AtRest /\ answered = asked /\ executed = asked
        BY <1>2 DEF ClientAsks
    <2>2. OnTheWay'
        BY <1>2, <2>1, OneMessage DEF ClientAsks, NetSend, bufVars
    <2>3. rstate \notin {"HAS_REQ", "SENDING_RES"}
        BY <2>1, OneMessage
    <2>4. Types' /\ Control'
        BY <1>2 DEF ClientAsks, threadVars
    <2> QED
        BY <1>2, <2>2, <2>3, <2>4, OneMessage DEF ClientAsks, threadVars
<1>3. CASE ClientReads
    <2>1. OnTheWayBack
        BY <1>3 DEF ClientReads
    <2>2. AtRest' /\ answered' = asked'
        BY <1>3, <2>1, OneMessage DEF ClientReads, bufVars
    <2>3. rstate \notin {"HAS_REQ", "SENDING_RES"}
        BY <2>1, OneMessage
    <2>4. Types' /\ Control'
        BY <1>3, <2>1, OneMessage DEF ClientReads, threadVars
    <2> QED
        BY <1>3, <2>2, <2>3, <2>4 DEF ClientReads, threadVars
<1>4. CASE ClientLeaves
    BY <1>4 DEF ClientLeaves, NetClose, threadVars, bufVars
<1> QED
    BY <1>1, <1>2, <1>3, <1>4

(* CycleInv holds in every state of the connection.                        *)
LEMMA CycleInvariant == Spec => []CycleInv
<1>1. Init => CycleInv
    <2> SUFFICES ASSUME Init PROVE CycleInv
        OBVIOUS
    <2>1. Types
        BY DEF Init, RunnerInit, Types, RunnerState
    <2>2. Control
        BY DEF Init, RunnerInit, Control
    <2>3. AtRest /\ answered = asked
        <3>1. toServ = <<>> /\ inBuf = <<>> /\ outBuf = <<>> /\ toCli = <<>>
            BY Zenon DEF Init, RunnerInit
        <3> QED
            BY <3>1 DEF Init, AtRest
    <2> QED
        BY <2>1, <2>2, <2>3 DEF Init, RunnerInit, CycleInv, OnePlace
<1>2. CycleInv /\ [Next]_vars => CycleInv'
    <2>1. CycleInv /\ UNCHANGED vars => CycleInv'
        BY DEF vars, runnerVars, threadVars, bufVars, netVars, CycleInv, Types,
               Control, OnePlace, AtRest, OnTheWay, Received, Answered, OnTheWayBack
    <2> QED
        BY <2>1, RunnerKeeps, ServerKeeps, ClientKeeps DEF Next
<1> QED
    BY <1>1, <1>2, PTL DEF Spec

-----------------------------------------------------------------------------
(* The types of the protocol's state, for any number of requests.          *)
THEOREM CycleTypeCorrect == Spec => []TypeOK
<1>1. CycleInv => TypeOK
    <2> SUFFICES ASSUME CycleInv PROVE TypeOK
        OBVIOUS
    <2>1. <<>> \in Seq(Nat) /\ <<asked>> \in Seq(Nat)
        BY DEF CycleInv, Types
    <2>2. /\ toServ \in {<<>>, <<asked>>} /\ inBuf \in {<<>>, <<asked>>}
          /\ outBuf \in {<<>>, <<asked>>} /\ toCli \in {<<>>, <<asked>>}
        BY DEF CycleInv, OnePlace, AtRest, OnTheWay, Received, Answered, OnTheWayBack
    <2>3. /\ toServ \in Seq(Nat) /\ inBuf \in Seq(Nat)
          /\ outBuf \in Seq(Nat) /\ toCli \in Seq(Nat)
        BY <2>1, <2>2
    <2> QED
        BY <2>3 DEF CycleInv, Types, TypeOK
<1> QED
    BY <1>1, CycleInvariant, PTL

(* No assert of the runner fails, in any interleaving of the two threads   *)
(* of the server with a client that may leave at any time.                 *)
THEOREM RunnerAssertsHold == Spec => []RunnerAsserts
<1>1. CycleInv => RunnerAsserts
    BY DEF CycleInv, Control, RunnerAsserts
<1> QED
    BY <1>1, CycleInvariant, PTL

(* The unlocked buffers have one owner at a time, and there is a response  *)
(* to send whenever the network thread sends one.                          *)
THEOREM BuffersAreExclusive == Spec => []BuffersExclusive
<1>1. CycleInv => BuffersExclusive
    BY OneMessage DEF CycleInv, Control, OnePlace, Answered, BuffersExclusive
<1> QED
    BY <1>1, CycleInvariant, PTL

(* Every answer the client reads is the one to the request it asked last.  *)
THEOREM AnswersAreInOrder == Spec => []AnswersInOrder
<1>1. CycleInv => AnswersInOrder
    BY OneMessage
    DEF CycleInv, Types, OnePlace, AtRest, OnTheWay, Received, Answered,
        OnTheWayBack, AnswersInOrder
<1> QED
    BY <1>1, CycleInvariant, PTL

(* No request is executed twice, none is answered before it is executed.   *)
THEOREM RequestsExecuteOnce == Spec => []ExecutedOnce
<1>1. CycleInv => ExecutedOnce
    BY DEF CycleInv, Types, OnePlace, AtRest, OnTheWay, Received, Answered,
           OnTheWayBack, ExecutedOnce
<1> QED
    BY <1>1, CycleInvariant, PTL

-----------------------------------------------------------------------------
(* The three parties implement one-at-a-time remote calls: sending,        *)
(* receiving and the hand-over between the threads are steps a client      *)
(* cannot see.                                                             *)
THEOREM CycleImplementsRpc == Spec => ImplementsRpc
<1> DEFINE pendingBar == IF cli = "waiting" THEN asked ELSE 0
<1>1. Init => Calls!Init
    BY DEF Init, RunnerInit, Calls!Init, phaseBar
<1>2. ASSUME CycleInv, CycleInv', [Next]_vars
      PROVE  [Calls!Next]_(Calls!rpcVars)
    <2> USE DEF CycleInv, Types
    <2>1. CASE UNCHANGED <<cli, asked, executed>>
        BY <2>1 DEF phaseBar, Calls!rpcVars
    <2>2. CASE Answer
        <3>1. Received
            BY <1>2, <2>2 DEF Answer, SignalRes, Control, OnePlace
        <3>2. cli \in {"waiting", "gone"}
            BY <1>2, <3>1, OneMessage DEF OnePlace, AtRest, Received
        <3>3. /\ UNCHANGED <<cli, asked>>
              /\ executed < asked /\ executed' >= asked'
            BY <1>2, <2>2, <3>1 DEF Answer, Received
        <3>4. CASE cli = "waiting"
            <4>1. phaseBar = "asked" /\ phaseBar' = "executed"
                BY <1>2, <3>3, <3>4 DEF phaseBar
            <4> QED
                BY <3>3, <3>4, <4>1 DEF Calls!Next, Calls!Execute
        <3>5. CASE cli = "gone"
            BY <3>3, <3>5 DEF phaseBar, Calls!rpcVars
        <3> QED
            BY <3>2, <3>4, <3>5
    <2>3. CASE ClientAsks
        <3>1. executed = asked /\ executed' < asked'
            BY <1>2, <2>3 DEF ClientAsks, OnePlace, AtRest
        <3>2. phaseBar = "idle" /\ phaseBar' = "asked"
            BY <1>2, <2>3, <3>1 DEF ClientAsks, phaseBar
        <3>3. pendingBar' \in Nat \ {0}
            BY <1>2, <2>3 DEF ClientAsks
        <3> QED
            BY <3>2, <3>3 DEF Calls!Next, Calls!Ask
    <2>4. CASE ClientReads
        <3>1. executed = asked
            BY <1>2, <2>4
            DEF ClientReads, OnePlace, AtRest, OnTheWay, Received, Answered,
                OnTheWayBack
        <3>2. phaseBar = "executed" /\ phaseBar' = "idle" /\ pendingBar' = 0
            BY <1>2, <2>4, <3>1 DEF ClientReads, phaseBar
        <3> QED
            BY <3>2 DEF Calls!Next, Calls!Answer
    <2>5. CASE ClientLeaves
        <3>1. phaseBar # "lost" /\ phaseBar' = "lost" /\ pendingBar' = 0
            BY <1>2, <2>5 DEF ClientLeaves, phaseBar
        <3> QED
            BY <3>1 DEF Calls!Next, Calls!Lose
    <2> QED
        BY <1>2, <2>1, <2>2, <2>3, <2>4, <2>5
        DEF Next, vars, FirstSetup, Take, Runner, ClientConnects
<1> QED
    BY <1>1, <1>2, CycleInvariant, PTL DEF Spec, ImplementsRpc, Calls!Spec
=============================================================================
