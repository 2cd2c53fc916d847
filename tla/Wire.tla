-------------------------------- MODULE Wire --------------------------------
(***************************************************************************)
(* Requests and responses between DBClientImplData in the client and       *)
(* DataClientHandler in the server: what the RequestHandler                *)
(* (request-handler.hh) writes and reads in each of its four modes, and    *)
(* the calls of send_req and run_command that put them in order.           *)
(*                                                                         *)
(* Neither side looks at the values it copies, so each cell of an array    *)
(* has a value of its own instead of every value.  What the server does    *)
(* with a request is the subject of module RemoteSession.                  *)
(***************************************************************************)
EXTENDS WireFormat, FiniteSets, TLC

CONSTANTS
    CountMod,   \* 2^16 in the code: the counts of a request are uint16_t
    MaxN,       \* the largest array a caller passes
    Name        \* names of registers and symbols: sequences of characters

ASSUME WireAssumption ==
    /\ CountMod \in Nat \ {0} /\ MaxN \in Nat
    /\ \A s \in Name : \A i \in DOMAIN s : s[i] \in Nat \ {0}

VARIABLES
    phase,    \* "idle", "sent", "served" or "answered"
    call,     \* the request: its type and its fields
    os,       \* DBClientImplData's _os, as received into the server's _in
    srv,      \* what server_read_request made of it
    answer,   \* the results of DBClientImplVMSide, or its exception
    res,      \* the server's _out, as received into the client's _is
    result    \* what client_read_response made of it

wireVars == <<phase, call, os, srv, answer, res, result>>

-----------------------------------------------------------------------------
(* Writing the fields of a request or of a response: HandlerCliSend and    *)
(* HandlerServSend.                                                        *)

Upto(arr, n) == SubSeq(arr, 1, n)

Cells(it, s) ==
    CASE it.op = "object"       -> <<s[it.f]>>
      [] it.op = "buffer"       -> Upto(s[it.f], s[it.n])
      [] it.op = "buffer_2d"    -> FlattenSeq([i \in 1 .. s[it.n] |->
                                                 Upto(s[it.f][i], s[it.m])])
      [] it.op = "buffer_2dvar" -> FlattenSeq([i \in 1 .. s[it.n] |->
                                                 Upto(s[it.f][i], s[it.m][i])])
      [] it.op = "cstr"         -> FlattenSeq([i \in 1 .. s[it.n] |->
                                                 Append(s[it.f][i], 0)])

WriteItem(it, s) ==
    LET cells == Cells(it, s) IN
    (IF it.op = "cstr" THEN Token(U16, Len(cells) % CountMod) ELSE <<>>)
    \o FlattenSeq([i \in DOMAIN cells |-> Put(it.t, cells[i])])

CliSend(it, s)  == IF it.dir = "in" THEN WriteItem(it, s) ELSE <<>>
ServSend(it, s) == IF it.dir = "out" THEN WriteItem(it, s) ELSE <<>>

client_write_request(ty, s) ==
    FlattenSeq([i \in DOMAIN prepare_request[ty] |-> CliSend(prepare_request[ty][i], s)])

server_write_response(ty, s) ==
    FlattenSeq([i \in DOMAIN prepare_request[ty] |-> ServSend(prepare_request[ty][i], s)])

-----------------------------------------------------------------------------
(* Reading them: HandlerServRecv and HandlerCliRecv.  A reader's v is the  *)
(* request as far as it has been read.                                     *)

Chars(n) == [i \in 1 .. n |-> Char]

(* One block of bytes, and a row of it for each size.                      *)
Before(sizes, i) == FoldLeft(LAMBDA a, b : a + b, 0, Upto(sizes, i - 1))

Row(all, sizes, i) ==
    SubSeq(all, Before(sizes, i) + 1, Before(sizes, i) + sizes[i])

TakeRows(sizes, buf, pos) ==
    LET all == TakeAll(Chars(Before(sizes, Len(sizes) + 1)), buf, pos) IN
    IF all.ok THEN Reader([i \in DOMAIN sizes |-> Row(all.v, sizes, i)], all.pos, TRUE)
    ELSE all

(* The n strings of a block of zero-terminated ones, as strlen finds them. *)
TakeStrings(n, buf, pos) ==
    LET size == read(U16, buf, pos)
        all  == TakeAll(Chars(size.v), buf, size.pos)
        ends == SelectSeq([k \in 1 .. size.v |-> k], LAMBDA k : all.v[k] = 0)
        beg(i) == IF i = 1 THEN 1 ELSE ends[i - 1] + 1
    IN  IF size.ok /\ all.ok /\ n <= Len(ends)
        THEN Reader([i \in 1 .. n |-> SubSeq(all.v, beg(i), ends[i] - 1)],
                    all.pos, TRUE)
        ELSE Reader(<<>>, pos, FALSE)

ReadItem(it, rd, buf) ==
    LET s == rd.v
        sizes == IF it.op = "buffer_2d" THEN [i \in 1 .. s[it.n] |-> s[it.m]]
                                        ELSE s[it.m]
        got == CASE it.op = "object" -> read(it.t, buf, rd.pos)
                 [] it.op = "buffer" ->
                      TakeAll([i \in 1 .. s[it.n] |-> it.t], buf, rd.pos)
                 [] it.op \in {"buffer_2d", "buffer_2dvar"} ->
                      TakeRows(sizes, buf, rd.pos)
                 [] it.op = "cstr" -> TakeStrings(s[it.n], buf, rd.pos)
    IN  Reader((it.f :> got.v) @@ s, got.pos, got.ok)

ServRecv(it, rd, buf) == IF it.dir = "in" /\ rd.ok THEN ReadItem(it, rd, buf) ELSE rd
CliRecv(it, rd, buf)  == IF it.dir = "out" /\ rd.ok THEN ReadItem(it, rd, buf) ELSE rd

(* The first token of a message is its type.                               *)
server_read_request(ty, buf) ==
    FoldLeft(LAMBDA rd, it : ServRecv(it, rd, buf), Reader(<<>>, 1, TRUE),
             prepare_request[ty])

client_read_response(ty, s, buf) ==
    FoldLeft(LAMBDA rd, it : CliRecv(it, rd, buf), Reader(s, 1, TRUE),
             prepare_request[ty])

-----------------------------------------------------------------------------
(* The requests of DBClientImplData.  The caller's size_t becomes a        *)
(* uint16_t.                                                               *)

Request(ty, s) == [ty |-> ty, s |-> s]
NoCall   == Request("STOP", <<>>)
Count(n) == n % CountMod

Ids(n)   == [i \in 1 .. n |-> i]
Arr(n, S) == [1 .. n -> S]
Bytes(sizes) == [i \in DOMAIN sizes |-> [j \in 1 .. sizes[i] |-> 10 * i + j]]

(* regs_size[1] = 0 stands for registers of one size.                      *)
SameSize(sizes) == Len(sizes) < 2 \/ sizes[2] = 0
RegSizes(n) == Arr(n, 1 .. 2) \cup {[i \in 1 .. n |-> IF i = 1 THEN z ELSE 0] :
                                      z \in 1 .. 2}
RegBytes(sizes) == Bytes(IF SameSize(sizes) THEN [i \in DOMAIN sizes |-> sizes[1]]
                                            ELSE sizes)

get_regs(sizes) ==
    LET n == Len(sizes) IN
    IF SameSize(sizes)
    THEN Request("GET_REGS",
                 [nregs |-> Count(n), reg_size |-> sizes[1], ids |-> Ids(n)])
    ELSE Request("GET_REGS_VAR",
                 [nregs |-> Count(n), in_ids |-> Ids(n), in_regs_size |-> sizes])

set_regs(sizes) ==
    LET n == Len(sizes) IN
    IF SameSize(sizes)
    THEN Request("SET_REGS", [nregs |-> Count(n), reg_size |-> sizes[1],
                              in_ids |-> Ids(n), in_bufs |-> RegBytes(sizes)])
    ELSE Request("SET_REGS_VAR",
                 [nregs |-> Count(n), in_ids |-> Ids(n), in_regs_size |-> sizes,
                  in_bufs |-> RegBytes(sizes)])

read_mem(sizes) ==
    Request("READ_MEM_VAR",
            [nbufs |-> Count(Len(sizes)), in_addrs |-> Ids(Len(sizes)),
             in_bufs_size |-> sizes])

write_mem(sizes) ==
    Request("WRITE_MEM_VAR",
            [nbufs |-> Count(Len(sizes)), in_addrs |-> Ids(Len(sizes)),
             in_bufs_size |-> sizes, in_bufs |-> Bytes(sizes)])

(* The calls with one array of ids, addresses or names.                    *)
ArrayCalls(n) ==
    {Request("GET_REGS_INFOS", [nregs |-> Count(n), ids |-> Ids(n)]),
     Request("GET_SYMS_BY_IDS", [nsyms |-> Count(n), in_ids |-> Ids(n)]),
     Request("ADD_BKPS", [size |-> Count(n), in_addrs |-> Ids(n)]),
     Request("DEL_BKPS", [size |-> Count(n), in_addrs |-> Ids(n)])}
    \cup UNION {{Request("FIND_REGS_IDS", [nregs |-> Count(n), in_bufs |-> names]),
                 Request("GET_SYMS_BY_NAMES",
                         [nsyms |-> Count(n), in_names |-> names])}
                : names \in Arr(n, Name)}

ScalarCalls ==
    {Request(ty, <<>>) : ty \in {"CONNECT", "STOP", "CHECK_STOPPED"}}
    \cup {Request("GET_SYMS_BY_ADDR", [addr |-> 1, size |-> 2]),
          Request("GET_CODE_TEXT", [addr |-> 1, nins |-> 2])}
    \cup {Request("RESUME", [type |-> type]) : type \in 0 .. 4}

ClientCalls ==
    ScalarCalls \cup UNION {ArrayCalls(n) : n \in 0 .. MaxN}
    \cup UNION {{get_regs(sizes), set_regs(sizes)} :
                  sizes \in UNION {RegSizes(n) : n \in 1 .. MaxN}}
    \cup UNION {{read_mem(sizes), write_mem(sizes)} :
                  sizes \in UNION {Arr(n, 0 .. 2) : n \in 1 .. MaxN}}

-----------------------------------------------------------------------------
(* What DBClientImplVMSide may put into the result fields: one result for  *)
(* each element of the request, or as many symbols or instructions as it   *)
(* found.                                                                  *)

SomeRegInfos(i)   == {[idx |-> i, name |-> nm, size |-> 10 + i, kind |-> 2] : nm \in Name}
SomeSymbolInfos(i) == {[idx |-> i, name |-> nm, addr |-> 20 + i] : nm \in Name}
SomeVMInfos ==
    {[name |-> nm, regs_count |-> 1, regs_general |-> <<2, 3>>,
      regs_program_counter |-> <<4>>, regs_stack_pointer |-> <<>>,
      regs_base_pointer |-> <<5>>, regs_flags |-> <<>>, memory_size |-> 6,
      symbols_count |-> 7, pointer_size |-> 8, integer_size |-> 9,
      use_opcode |-> 1] : nm \in Name}
SomeUpdates ==
    {[vm_state |-> st, stopped |-> 1, addr |-> 11,
      stack |-> [i \in 1 .. k |-> [caller_start_addr |-> i, call_addr |-> 10 + i]]]
     : st \in 0 .. 2, k \in 0 .. 2}

ArrOf(n, S(_)) == {f \in [1 .. n -> UNION {S(i) : i \in 1 .. n}] :
                     \A i \in 1 .. n : f[i] \in S(i)}

Answers(ty, s) ==
    CASE ty = "CONNECT" -> [out_infos : SomeVMInfos, out_udp : SomeUpdates]
      [] ty = "CHECK_STOPPED" -> [out_udp : SomeUpdates]
      [] ty = "GET_REGS" ->
           {[out_bufs |-> Bytes([i \in 1 .. s.nregs |-> s.reg_size])]}
      [] ty = "GET_REGS_VAR" -> {[out_bufs |-> Bytes(s.in_regs_size)]}
      [] ty = "READ_MEM_VAR" -> {[out_bufs |-> Bytes(s.in_bufs_size)]}
      [] ty = "GET_REGS_INFOS" -> [out_infos : ArrOf(s.nregs, SomeRegInfos)]
      [] ty = "FIND_REGS_IDS" -> {[out_ids |-> Ids(s.nregs)]}
      [] ty \in {"GET_SYMS_BY_IDS", "GET_SYMS_BY_NAMES"} ->
           [out_infos : ArrOf(s.nsyms, SomeSymbolInfos)]
      [] ty = "GET_SYMS_BY_ADDR" ->
           [out_infos : UNION {ArrOf(k, SomeSymbolInfos) : k \in 0 .. s.size}]
      [] ty = "GET_CODE_TEXT" ->
           [out_text : Arr(s.nins, Name), out_sizes : {[i \in 1 .. s.nins |-> 30 + i]}]
      [] OTHER -> {<<>>}

-----------------------------------------------------------------------------
Nothing == Reader(<<>>, 0, TRUE)

WireInit ==
    /\ phase = "idle" /\ call = NoCall
    /\ os = <<>> /\ res = <<>>
    /\ srv = Nothing /\ answer = Request("STOP", <<>>) /\ result = Nothing

(* Mutant of send_request: the last request is still in _os.               *)
MutSendRequest(c) ==
    /\ phase = "idle"
    /\ call' = c
    /\ os' = os \o Token(Enum, c.ty) \o client_write_request(c.ty, c.s)
    /\ phase' = "sent"
    /\ UNCHANGED <<srv, answer, res, result>>

(* send_req, up to the blocking read.                                      *)
send_request(c) ==
    /\ phase = "idle"
    /\ call' = c
    /\ os' = Token(Enum, c.ty) \o client_write_request(c.ty, c.s)
    /\ phase' = "sent"
    /\ UNCHANGED <<srv, answer, res, result>>

(* Mutant of error_response: the type of the request is written before the *)
(* call that may throw.                                                    *)
MutErrorResponse(ty, msg) ==
    Token(Enum, ty) \o Token(Enum, "ERR") \o server_write_response("ERR", [msg |-> msg])

(* A VMApi::Error of the debugger: nothing else was written yet.           *)
error_response(ty, msg) ==
    Token(Enum, "ERR") \o server_write_response("ERR", [msg |-> msg])

(* run_command and check_stopped: the request is read, the debugger is     *)
(* called, and either the results or its exception are written.            *)
run_command ==
    /\ phase = "sent"
    /\ LET ty == os[1].v
           rd == server_read_request(ty, os)
       IN
       /\ srv' = rd
       /\ \/ \E outs \in Answers(ty, rd.v) :
                 /\ answer' = Request(ty, outs)
                 /\ res' = Token(Enum, ty) \o server_write_response(ty, outs @@ rd.v)
          \/ \E msg \in Name :
                 /\ answer' = Request("ERR", [msg |-> msg])
                 /\ res' = error_response(ty, msg)
    /\ phase' = "served"
    /\ UNCHANGED <<call, os, result>>

(* The rest of send_req: an ERR is read by handle_err, another type is the *)
(* one that was asked for (line 42), read into the caller's arrays.  What  *)
(* it reads is the last message written, were it one of an earlier call.   *)
read_response ==
    /\ phase \in {"sent", "served"}
    /\ LET ty == res[1].v IN
       result' = IF ty = "ERR" THEN client_read_response("ERR", <<>>, res)
              ELSE client_read_response(call.ty, call.s, res)
    /\ phase' = "answered"
    /\ UNCHANGED <<call, os, srv, answer, res>>

(* The call returns; both buffers keep what was last in them.              *)
Returns ==
    /\ phase = "answered"
    /\ phase' = "idle"
    /\ call' = NoCall /\ srv' = Nothing /\ result' = Nothing
    /\ answer' = Request("STOP", <<>>)
    /\ UNCHANGED <<os, res>>

-----------------------------------------------------------------------------
(* Properties.                                                             *)

(* The server reads the request the client wrote: every field that goes    *)
(* in, and the message to its end, which is what check_eof (serial.hh:86)  *)
(* would test, and nobody calls.                                           *)
RequestArrives ==
    phase = "served" =>
        /\ srv.ok /\ srv.pos = Len(os)
        /\ srv.v = call.s

(* The client reads the response the server wrote, into arrays whose sizes *)
(* are its own: every field that goes out, or the message of the           *)
(* exception, and the message to its end.                                  *)
ResponseArrives ==
    phase = "answered" =>
        /\ result.ok /\ result.pos = Len(res)
        /\ \A f \in DOMAIN answer.s : result.v[f] = answer.s[f]
=============================================================================
