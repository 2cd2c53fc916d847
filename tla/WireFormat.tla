----------------------------- MODULE WireFormat -----------------------------
(***************************************************************************)
(* The format of the messages between client and server: the serialization *)
(* of the types (serial.hh, request.cc) and the fields of each request     *)
(* (prepare_request).                                                      *)
(*                                                                         *)
(* A buffer is a sequence of tokens, one for each integer or character     *)
(* written: its width in bytes and its value.  A reader that expects       *)
(* another width, or finds the buffer at its end, is out of step: the code *)
(* takes other bytes for its value or fails the assert of serial.hh:81.    *)
(*                                                                         *)
(* Only TLC uses this module: the types nest, and Put and read recurse.    *)
(***************************************************************************)
EXTENDS Integers, Sequences, SequencesExt

-----------------------------------------------------------------------------
(* Types.  A struct lists its fields as sb_serialize writes them and as    *)
(* sb_unserialize reads them, which are two functions of the code.         *)

Prim(w) == [k |-> "prim", w |-> w]
Vec(t)  == [k |-> "vec", of |-> t]
Struct(ser, unser) == [k |-> "struct", ser |-> ser, unser |-> unser]

U8     == Prim(1)
Char   == Prim(1)
U16    == Prim(2)
U32    == Prim(4)
U64    == Prim(8)
Enum   == Prim(1)          \* ReqType, StoppedState, RegKind, ResumeType: int8_t
String == Vec(Char)

VMInfos == Struct(
    << <<"name", String>>, <<"regs_count", U32>>, <<"regs_general", Vec(U32)>>,
       <<"regs_program_counter", Vec(U32)>>, <<"regs_stack_pointer", Vec(U32)>>,
       <<"regs_base_pointer", Vec(U32)>>, <<"regs_flags", Vec(U32)>>,
       <<"memory_size", U64>>, <<"symbols_count", U32>>, <<"pointer_size", U64>>,
       <<"integer_size", U64>>, <<"use_opcode", U8>> >>,
    << <<"name", String>>, <<"regs_count", U32>>, <<"regs_general", Vec(U32)>>,
       <<"regs_program_counter", Vec(U32)>>, <<"regs_stack_pointer", Vec(U32)>>,
       <<"regs_base_pointer", Vec(U32)>>, <<"regs_flags", Vec(U32)>>,
       <<"memory_size", U64>>, <<"symbols_count", U32>>, <<"pointer_size", U64>>,
       <<"integer_size", U64>>, <<"use_opcode", U8>> >>)

CallInfos == Struct(<< <<"caller_start_addr", U64>>, <<"call_addr", U64>> >>,
                    << <<"caller_start_addr", U64>>, <<"call_addr", U64>> >>)

DBClientUpdate == Struct(
    << <<"vm_state", Enum>>, <<"stopped", U8>>, <<"addr", U64>>,
       <<"stack", Vec(CallInfos)>> >>,
    << <<"vm_state", Enum>>, <<"stopped", U8>>, <<"addr", U64>>,
       <<"stack", Vec(CallInfos)>> >>)

RegInfos == Struct(
    << <<"idx", U32>>, <<"name", String>>, <<"size", U64>>, <<"kind", Enum>> >>,
    << <<"idx", U32>>, <<"name", String>>, <<"size", U64>>, <<"kind", Enum>> >>)

SymbolInfos == Struct(
    << <<"idx", U32>>, <<"name", String>>, <<"addr", U64>> >>,
    << <<"idx", U32>>, <<"name", String>>, <<"addr", U64>> >>)

-----------------------------------------------------------------------------
(* operator<< and operator>>.                                              *)

Token(t, v) == <<[w |-> t.w, v |-> v]>>

RECURSIVE Put(_, _)
Put(t, v) ==
    CASE t.k = "prim"   -> Token(t, v)
      [] t.k = "vec"    -> Token(U64, Len(v))
                           \o FlattenSeq([i \in DOMAIN v |-> Put(t.of, v[i])])
      [] t.k = "struct" -> FlattenSeq([i \in DOMAIN t.ser |->
                                         Put(t.ser[i][2], v[t.ser[i][1]])])

(* A reader: the value it got, its position, and whether it is in step.    *)
Reader(v, pos, ok) == [v |-> v, pos |-> pos, ok |-> ok]
Garbage == -1

RECURSIVE read(_, _, _), TakeAll(_, _, _)
TakeAll(types, buf, pos) ==
    IF types = <<>> THEN Reader(<<>>, pos, TRUE)
    ELSE LET one  == read(Head(types), buf, pos)
             rest == TakeAll(Tail(types), buf, one.pos)
         IN  IF one.ok /\ rest.ok
             THEN Reader(<<one.v>> \o rest.v, rest.pos, TRUE)
             ELSE Reader(Garbage, pos, FALSE)
read(t, buf, pos) ==
    CASE t.k = "prim" ->
           IF pos < Len(buf) /\ buf[pos + 1].w = t.w
           THEN Reader(buf[pos + 1].v, pos + 1, TRUE)
           ELSE Reader(Garbage, pos, FALSE)
      [] t.k = "vec" ->
           LET size == read(U64, buf, pos) IN
           IF size.ok THEN TakeAll([i \in 1 .. size.v |-> t.of], buf, size.pos)
           ELSE size
      [] t.k = "struct" ->
           LET rd == TakeAll([i \in DOMAIN t.unser |-> t.unser[i][2]], buf, pos)
               names == {t.unser[i][1] : i \in DOMAIN t.unser}
           IN  IF rd.ok
               THEN Reader([f \in names |->
                              rd.v[CHOOSE i \in DOMAIN t.unser : t.unser[i][1] = f]],
                           rd.pos, TRUE)
               ELSE rd

-----------------------------------------------------------------------------
(* prepare_request: the fields of each request, in order.  n and m name    *)
(* the fields that hold the sizes of a buffer.  READ_MEM and WRITE_MEM are *)
(* left out: DBClientImplData sends only their _VAR forms.                 *)

Item(dir, op, f, t, n, m) ==
    [dir |-> dir, op |-> op, f |-> f, t |-> t, n |-> n, m |-> m]

object(dir, f, t)          == Item(dir, "object", f, t, "", "")
buffer(dir, f, t, n)       == Item(dir, "buffer", f, t, n, "")
buffer_2d(dir, f, n, m)    == Item(dir, "buffer_2d", f, Char, n, m)
buffer_2dvar(dir, f, n, m) == Item(dir, "buffer_2dvar", f, Char, n, m)
buffer_2d_in_cstr(f, n)    == Item("in", "cstr", f, Char, n, "")

prepare_request ==
   [CONNECT       |-> << object("out", "out_infos", VMInfos),
                         object("out", "out_udp", DBClientUpdate) >>,
    STOP          |-> << >>,
    CHECK_STOPPED |-> << object("out", "out_udp", DBClientUpdate) >>,
    GET_REGS      |-> << object("in", "nregs", U16), object("in", "reg_size", U64),
                         buffer("in", "ids", U32, "nregs"),
                         buffer_2d("out", "out_bufs", "nregs", "reg_size") >>,
    GET_REGS_VAR  |-> << object("in", "nregs", U16),
                         buffer("in", "in_ids", U32, "nregs"),
                         buffer("in", "in_regs_size", U64, "nregs"),
                         buffer_2dvar("out", "out_bufs", "nregs", "in_regs_size") >>,
    SET_REGS      |-> << object("in", "nregs", U16), object("in", "reg_size", U64),
                         buffer("in", "in_ids", U32, "nregs"),
                         buffer_2d("in", "in_bufs", "nregs", "reg_size") >>,
    SET_REGS_VAR  |-> << object("in", "nregs", U16),
                         buffer("in", "in_ids", U32, "nregs"),
                         buffer("in", "in_regs_size", U64, "nregs"),
                         buffer_2dvar("in", "in_bufs", "nregs", "in_regs_size") >>,
    GET_REGS_INFOS |-> << object("in", "nregs", U16),
                          buffer("in", "ids", U32, "nregs"),
                          buffer("out", "out_infos", RegInfos, "nregs") >>,
    FIND_REGS_IDS |-> << object("in", "nregs", U16),
                         buffer_2d_in_cstr("in_bufs", "nregs"),
                         buffer("out", "out_ids", U32, "nregs") >>,
    READ_MEM_VAR  |-> << object("in", "nbufs", U16),
                         buffer("in", "in_addrs", U64, "nbufs"),
                         buffer("in", "in_bufs_size", U64, "nbufs"),
                         buffer_2dvar("out", "out_bufs", "nbufs", "in_bufs_size") >>,
    WRITE_MEM_VAR |-> << object("in", "nbufs", U16),
                         buffer("in", "in_addrs", U64, "nbufs"),
                         buffer("in", "in_bufs_size", U64, "nbufs"),
                         buffer_2dvar("in", "in_bufs", "nbufs", "in_bufs_size") >>,
    GET_SYMS_BY_IDS   |-> << object("in", "nsyms", U16),
                             buffer("in", "in_ids", U32, "nsyms"),
                             buffer("out", "out_infos", SymbolInfos, "nsyms") >>,
    GET_SYMS_BY_ADDR  |-> << object("in", "addr", U64), object("in", "size", U64),
                             object("out", "out_infos", Vec(SymbolInfos)) >>,
    GET_SYMS_BY_NAMES |-> << object("in", "nsyms", U16),
                             buffer_2d_in_cstr("in_names", "nsyms"),
                             buffer("out", "out_infos", SymbolInfos, "nsyms") >>,
    GET_CODE_TEXT     |-> << object("in", "addr", U64), object("in", "nins", U64),
                             object("out", "out_text", Vec(String)),
                             object("out", "out_sizes", Vec(U64)) >>,
    ADD_BKPS      |-> << object("in", "size", U16),
                         buffer("in", "in_addrs", U64, "size") >>,
    DEL_BKPS      |-> << object("in", "size", U16),
                         buffer("in", "in_addrs", U64, "size") >>,
    RESUME        |-> << object("in", "type", Enum) >>,
    ERR           |-> << object("out", "msg", String) >>]

ReqType == DOMAIN prepare_request
=============================================================================
