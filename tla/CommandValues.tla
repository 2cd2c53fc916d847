--------------------------- MODULE CommandValues ---------------------------
(***************************************************************************)
(* What the words of a command line mean: the types, integers and values   *)
(* of src/mess/simple-cli-client.cc, and the bytes that values are stored  *)
(* as.                                                                     *)
(*                                                                         *)
(* A word for a value is a record:                                         *)
(*   [k |-> "int", neg, base, digits]  an optional '-', the base that the  *)
(*       prefix selects, and the digits behind the prefix                  *)
(*   [k |-> "sym", sym]   '@' and a symbol, by its name or by its id       *)
(*   [k |-> "word"]       a word that spells no number                     *)
(* Floating point types and values that only they can hold are left out,   *)
(* and so are blanks and second signs, which std::stoll would skip.        *)
(* Integers are not: on their way into a buffer all of them become doubles *)
(* first (load_val).                                                       *)
(***************************************************************************)
EXTENDS Integers, Sequences, SequencesExt

CONSTANTS
    ByteMod,      \* values of a byte: 2^8
    LongMax,      \* the largest long long: 2^63 - 1
    DoubleExact,  \* up to here every integer is a double: 2^53
    DoubleMax     \* the largest double

ASSUME ByteModAssumption == ByteMod \in Nat \ {0, 1}

ASSUME NumbersAssumption ==
    /\ DoubleExact \in Nat \ {0} /\ LongMax \in Nat /\ DoubleMax \in Nat
    /\ DoubleExact <= LongMax /\ LongMax <= DoubleMax

Byte == 0 .. ByteMod - 1

TypeDesc == {"u8", "u16", "u32", "u64", "i8", "i16", "i32", "i64"}

Signed(ty) == ty \in {"i8", "i16", "i32", "i64"}

type_desc_size(ty) ==
    CASE ty \in {"u8", "i8"}   -> 1
      [] ty \in {"u16", "i16"} -> 2
      [] ty \in {"u32", "i32"} -> 4
      [] ty \in {"u64", "i64"} -> 8

-----------------------------------------------------------------------------
(* Words to numbers.                                                       *)

(* A digit multiplies what was read so far by the base (std::stoll).       *)
Number(base, digits) ==
    LET h[i \in 0 .. Len(digits)] == IF i = 0 THEN 0 ELSE base * h[i - 1] + digits[i]
    IN  h[Len(digits)]

(* The digits behind the prefix are those of the base, or other ones.      *)
IsWord(word) ==
    word.k = "int" =>
       word.neg \in BOOLEAN /\ word.base \in {2, 8, 10, 16} /\ word.digits \in Seq(Nat)

IsDigits(base, digits) == digits # <<>> /\ \A i \in DOMAIN digits : digits[i] < base

(* The distance between the doubles around m: it doubles whenever m does.  *)
Spacing(m) ==
    LET s[i \in 0 .. m] == IF i <= DoubleExact THEN 1 ELSE 2 * s[(i + 1) \div 2]
    IN  s[m]

(* The double nearest to m, and the even one of two that are as near.      *)
Nearest(m) ==
    LET u == Spacing(m)
        q == m \div u
        over == 2 * (m % u)
    IN  IF m <= DoubleExact THEN m
        ELSE u * (IF over > u \/ (over = u /\ q % 2 = 1) THEN q + 1 ELSE q)

ToDouble(n) == IF n < 0 THEN -Nearest(-n) ELSE Nearest(n)

NoParse == [ok |-> FALSE, val |-> 0]

(* Mutant of parse_int: the prefix 0b is not taken for base 2.             *)
MutParseInt(word) ==
    LET base == IF word.base = 2 THEN 10 ELSE word.base
    IN  IF word.k = "int" /\ IsDigits(word.base, word.digits)
           /\ Number(base, word.digits) <= LongMax
        THEN [ok |-> TRUE, val |-> Number(base, word.digits)]
        ELSE NoParse

(* parse_int(word, true).  The sign is cut off, and never applied: the     *)
(* variable that notes it is set to false (line 79).  std::stoll throws    *)
(* out_of_range beyond the largest long long.                              *)
parse_int(word) ==
    IF word.k = "int" /\ IsDigits(word.base, word.digits)
       /\ Number(word.base, word.digits) <= LongMax
    THEN [ok |-> TRUE, val |-> Number(word.base, word.digits)]
    ELSE NoParse

(* What parse_int refuses may be a floating point number: an integer that  *)
(* is too large, or one with a leading 0 and a digit 8 or 9.  std::stod    *)
(* knows the sign and the prefix 0x, but neither 0b nor base 8.            *)
parse_double(word) ==
    LET base == IF word.base = 16 THEN 16 ELSE 10
        size == Nearest(Number(base, word.digits))
    IN  IF word.k = "int" /\ word.base # 2 /\ IsDigits(base, word.digits)
           /\ size <= DoubleMax
        THEN [ok |-> TRUE, val |-> IF word.neg THEN -size ELSE size]
        ELSE NoParse

(* r_value: "ERR" stands for the exception.                                *)
r_value(word) ==
    CASE word.k = "sym"      -> [type |-> "SYM", val |-> word.sym]
      [] parse_int(word).ok  -> [type |-> "IVAL", val |-> parse_int(word).val]
      [] ~parse_int(word).ok /\ parse_double(word).ok ->
             [type |-> "DVAL", val |-> parse_double(word).val]
      [] OTHER               -> [type |-> "ERR", val |-> 0]

-----------------------------------------------------------------------------
(* Numbers to bytes and back, least significant byte first.                *)

(* base to the power of 0, 1, ..., n.                                      *)
Powers(base, n) ==
    LET p[i \in 0 .. n] == IF i = 0 THEN 1 ELSE base * p[i - 1] IN p

(* How many values a type has.                                             *)
Span(ty) == Powers(ByteMod, type_desc_size(ty))[type_desc_size(ty)]

(* Is n a value of the type?                                               *)
Fits(n, ty) ==
    IF Signed(ty) THEN -Span(ty) <= 2 * n /\ 2 * n < Span(ty) ELSE 0 <= n /\ n < Span(ty)

(* The operands of ?: in load_val are a long long and a double, so that    *)
(* its result is a double.                                                 *)
AsDouble(v) == IF v.type = "IVAL" THEN ToDouble(v.val) ELSE v.val

(* The buffers that a value may end up as.  The conversion of a double     *)
(* that is no value of the type is undefined: anything may come out.       *)
load_val(v, ty) ==
    LET p == Powers(ByteMod, type_desc_size(ty))
        d == AsDouble(v)
    IN  {b \in [1 .. type_desc_size(ty) -> Byte] :
            Fits(d, ty) => \A i \in DOMAIN b : b[i] = (d \div p[i - 1]) % ByteMod}

(* Mutant of print_val: the bytes are taken in the other order.            *)
MutPrintVal(bytes, ty) ==
    LET u == Number(ByteMod, bytes)
    IN  IF Signed(ty) /\ 2 * u >= Span(ty) THEN u - Span(ty) ELSE u

print_val(bytes, ty) ==
    LET u == Number(ByteMod, Reverse(bytes))
    IN  IF Signed(ty) /\ 2 * u >= Span(ty) THEN u - Span(ty) ELSE u

-----------------------------------------------------------------------------
(* Reference for the above: every digit counts its place, lowest first.    *)
Place(base, digits, i) == digits[i] * Powers(base, Len(digits))[i - 1]

Places(base, digits) ==
    LET w[i \in 0 .. Len(digits)] == IF i = 0 THEN 0 ELSE w[i - 1] + Place(base, digits, i)
    IN  w[Len(digits)]

(* From simple-cli-client.hh:77-82: a word is a signed integer in the base *)
(* of its prefix, and else the number it spells out in base 10.            *)
TypedValue(word) ==
    LET base == IF IsDigits(word.base, word.digits) THEN word.base ELSE 10
        size == Places(base, Reverse(word.digits))
    IN  IF word.neg THEN -size ELSE size
=============================================================================
