----------------------------- MODULE MCCommands -----------------------------
(* Commands with two registers of two bytes, bytes of one bit, four bytes  *)
(* of memory and two symbols: u8 goes up to 1, i16 from -2 to 1, u32 up to  *)
(* 15.  Integers up to 8 are doubles, a long long goes up to 12, and       *)
(* doubles up to 20.                                                       *)
EXTENDS Commands

CONSTANTS r1, r2, s1, s2, s3

MCVal == [1 .. RegSize -> Byte]

MCSymAddr == [s \in {s1, s2} |-> IF s = s1 THEN 0 ELSE 1]

Word(by, r) == [by |-> by, reg |-> r]

MCRegArgs ==
    { <<Word("id", r1)>>, <<Word("name", r2)>>, <<Word("alias", r2)>>,
      <<Word("id", NoReg)>>, <<Word("junk", NoReg)>>,
      <<Word("id", r1), Word("name", r2)>>, <<Word("name", r1), Word("id", r1)>> }

Num(neg, base, digits) == [k |-> "int", neg |-> neg, base |-> base, digits |-> digits]

Oct10 == Num(FALSE, 8, <<0, 1, 0>>)        \* 010 is 8
Oct17 == Num(FALSE, 8, <<0, 1, 7>>)        \* 017, too large, is read as 17
Bin1  == Num(FALSE, 2, <<1>>)              \* 0b1
Bin11 == Num(FALSE, 2, <<1, 1>>)           \* 0b11
Dec11 == Num(FALSE, 10, <<1, 1>>)          \* 11 is rounded to 12
HexE  == Num(FALSE, 16, <<14>>)            \* 0xe, too large, is a double
Hex1F == Num(FALSE, 16, <<1, 15>>)         \* 0x1f is too large for that as well
Dbl8  == Num(FALSE, 8, <<0, 8>>)           \* 08 is a double
Sym(s) == [k |-> "sym", sym |-> s]
NoWord == [k |-> "word"]

MCAddrArgs == {Sym(s1), Oct10, Dbl8, Sym(s3)}

MCStoreArgs ==
    { <<<<Word("id", r1)>>, <<Oct10>>>>, <<<<Word("name", r2)>>, <<Sym(s2)>>>>,
      <<<<Word("alias", r2)>>, <<HexE>>>>, <<<<Word("junk", NoReg)>>, <<Dec11>>>>,
      <<<<Word("name", NoReg)>>, <<Bin11>>>>, <<<<Word("id", r1)>>, <<Sym(s3)>>>>,
      <<<<Word("id", r2)>>, <<NoWord>>>>, <<<<Word("id", r1)>>, <<Oct17>>>>,
      <<<<Word("id", r2)>>, <<Hex1F>>>>,
      <<<<Word("id", r1), Word("name", r2)>>, <<Bin1, Dbl8>>>>,
      <<<<Word("name", r1), Word("id", r1)>>, <<Bin11, Bin1>>>> }

(* -1 and -0b11. *)
MCNegArgs ==
    { <<<<Word("id", r1)>>, <<Num(TRUE, 10, <<1>>)>>>>,
      <<<<Word("id", r2)>>, <<Num(TRUE, 2, <<1, 1>>)>>>> }
=============================================================================
