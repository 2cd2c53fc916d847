---------------------------- MODULE RequestCycle ----------------------------
(***************************************************************************)
(* The three parties of one request: a client blocked in send_req of       *)
(* src/client/db-client-impl-data.cc, the network thread of DataRunner and *)
(* the VM's thread that executes requests.  Requests are numbered in the   *)
(* order the client asks them, and the answer to request n is n, so that   *)
(* an answer that is lost, repeated or swapped shows.                      *)
(*                                                                         *)
(* Which requests there are and what they do is in module RemoteSession.   *)
(***************************************************************************)
EXTENDS DataRunner

CONSTANT MaxAsked   \* bound: requests the client asks

ASSUME RequestCycleAssumption == MaxAsked \in Nat \ {0}

VARIABLES
    cli,       \* "idle", "waiting" (in send_req) or "gone"
    asked,     \* number of requests asked
    answered,  \* number of the last answer the client read
    executed   \* number of requests the VM's thread executed

vars == <<runnerVars, cli, asked, answered, executed>>

Init ==
    /\ RunnerInit
    /\ cli = "idle" /\ asked = 0 /\ answered = 0 /\ executed = 0

-----------------------------------------------------------------------------
(* The VM's thread.                                                        *)

FirstSetup ==
    /\ RunnerStart
    /\ UNCHANGED <<bufVars, serving, netVars, cli, asked, answered, executed>>

Take == TakeRequest /\ UNCHANGED <<cli, asked, answered, executed>>

Answer ==
    /\ SignalRes(inBuf[1])
    /\ executed' = executed + 1
    /\ UNCHANGED <<cli, asked, answered>>

Runner == RunnerStep /\ UNCHANGED <<cli, asked, answered, executed>>

-----------------------------------------------------------------------------
(* The client.                                                             *)

ClientConnects ==
    /\ NetConnect
    /\ UNCHANGED <<threadVars, bufVars, serving, toServ, toCli, cli, asked,
                   answered, executed>>

ClientAsks ==
    /\ cli = "idle" /\ asked < MaxAsked
    /\ NetSend(asked + 1)
    /\ asked' = asked + 1
    /\ cli' = "waiting"
    /\ UNCHANGED <<threadVars, bufVars, serving, link, toCli, answered, executed>>

ClientReads ==
    /\ cli = "waiting" /\ toCli # <<>>
    /\ answered' = Head(toCli)
    /\ toCli' = Tail(toCli)
    /\ cli' = "idle"
    /\ UNCHANGED <<threadVars, bufVars, serving, link, toServ, asked, executed>>

(* The client ends, or is killed while it waits.                           *)
ClientLeaves ==
    /\ cli # "gone" /\ link # "none"
    /\ cli' = "gone"
    /\ NetClose
    /\ UNCHANGED <<threadVars, bufVars, serving, toServ, toCli, asked, answered,
                   executed>>

Next == \/ FirstSetup \/ Take \/ Answer \/ Runner
        \/ ClientConnects \/ ClientAsks \/ ClientReads \/ ClientLeaves

Spec == Init /\ [][Next]_vars

(* The network thread and the VM's thread keep running; the VM's thread    *)
(* comes back to the runner after every instruction, or blocks in          *)
(* run_command until there is a request (module RemoteSession).  A client  *)
(* blocked in read takes the response that is there.  Nobody has to ask or *)
(* to leave.                                                               *)
Fairness == /\ WF_vars(Runner) /\ WF_vars(Take) /\ WF_vars(Answer)
            /\ WF_vars(ClientReads)

-----------------------------------------------------------------------------
(* Properties.                                                             *)

(* Type invariant of the connection: _state is one of the runner's states  *)
(* (data-client-handler.cc:20-26), which start() sets before the thread    *)
(* runs (lines 36-40).                                                     *)
TypeOK ==
    /\ rpc \in {"off", "bind", "accept", "recv", "wait", "send", "end"}
    /\ rstate \in RunnerState
    /\ rstop \in BOOLEAN
    /\ inBuf \in Seq(Nat) /\ outBuf \in Seq(Nat)
    /\ serving \in BOOLEAN
    /\ link \in {"none", "pending", "open", "closed"}
    /\ toServ \in Seq(Nat) /\ toCli \in Seq(Nat)
    /\ cli \in {"idle", "waiting", "gone"}
    /\ asked \in Nat /\ answered \in Nat /\ executed \in Nat

(* The client reads the answer to what it asked: no answer is repeated,    *)
(* skipped or late (db-client-impl-data.cc:29-44 takes whatever comes next *)
(* on the connection for its answer).                                      *)
AnswersInOrder ==
    /\ cli = "idle" => answered = asked
    /\ cli = "waiting" => answered + 1 = asked
    /\ cli = "waiting" /\ toCli # <<>> => Head(toCli) = asked

(* A request is executed at most once, and its answer is not read before:  *)
(* the protocol has no retries that could repeat a resume or a write.      *)
ExecutedOnce == answered <= executed /\ executed <= asked

(* A client that waits is answered, unless the network thread gave up the  *)
(* connection.                                                             *)
AskedIsAnswered == (cli = "waiting") ~> (cli # "waiting" \/ rstate = "ERROR")

(* The network thread ends after the client left, so that the destructor   *)
(* of the runner (lines 31-34), which joins it, returns.                   *)
ThreadEnds == (cli = "gone") ~> (rpc = "end")

(* The detailed protocol implements one-at-a-time remote calls.            *)
phaseBar ==
    CASE cli = "gone" -> "lost"
      [] cli = "idle" -> "idle"
      [] cli = "waiting" /\ executed < asked -> "asked"
      [] cli = "waiting" /\ executed >= asked -> "executed"

Calls == INSTANCE Rpc WITH
    Request   <- Nat \ {0},
    NoRequest <- 0,
    phase     <- phaseBar,
    pending   <- IF cli = "waiting" THEN asked ELSE 0

ImplementsRpc == Calls!Spec
=============================================================================
