----------------------------- MODULE Conversions -----------------------------
(***************************************************************************)
(* Conversions by way of hexadecimal text.  A U256 becomes a token amount  *)
(* in bytes_to_big_int (src/src/extractor/types.rs): the bytes are printed *)
(* in hexadecimal and the text is parsed as a decimal number; when it      *)
(* holds a digit above 9, the two leading bytes are dropped and the rest   *)
(* is tried.  A storage key or value becomes a U256 in hex_to_u256         *)
(* (src/src/util.rs).                                                      *)
(***************************************************************************)
EXTENDS Naturals, SequencesExt

CONSTANT Width      \* bytes of a word: 32

ASSUME WidthAssumption == Width \in Nat \ {0}

(* U256::to_big_endian: the byte of least weight is the last one. *)
ToBigEndian(n) ==
    LET rest[j \in 0 .. Width - 1] == IF j = 0 THEN n ELSE rest[j - 1] \div 256
    IN  [j \in 1 .. Width |-> rest[Width - j] % 256]

(* the number that is written with these digits *)
ValueOf(base, digits) ==
    LET value[k \in 0 .. Len(digits)] ==
            IF k = 0 THEN 0 ELSE base * value[k - 1] + digits[k]
    IN  value[Len(digits)]

(* U256::from_big_endian *)
FromBigEndian(v) == ValueOf(256, v)

(* hex::encode, as the numbers its digits stand for *)
HexDigits(v) ==
    [d \in 1 .. 2 * Len(v) |->
        LET byte == v[(d + 1) \div 2]
        IN  IF d % 2 = 1 THEN byte \div 16 ELSE byte % 16]

(* BigInt::from_str reads decimal digits, and only those *)
IsDecimal(digits)    == \A d \in Range(digits) : d < 10
DecimalValue(digits) == ValueOf(10, digits)

BytesToBigInt(v) ==
    LET digits(skip) == HexDigits(SubSeq(v, skip + 1, Len(v)))
        readable == {skip \in 0 .. Len(v) - 1 :
                        skip % 2 = 0 /\ IsDecimal(digits(skip))}
    IN  IF readable = {} THEN 0 ELSE DecimalValue(digits(Min(readable)))

(* get_balance, and likewise get_value and the two get_max_.._per_gas *)
GetBalance(n) == BytesToBigInt(ToBigEndian(n))

-----------------------------------------------------------------------------
(* hex_to_bytes: a text of odd length is completed with a zero *)
HexToBytes(digits) ==
    LET even == IF Len(digits) % 2 = 1 THEN <<0>> \o digits ELSE digits
    IN  [j \in 1 .. Len(even) \div 2 |-> 16 * even[2 * j - 1] + even[2 * j]]

(* hex_to_u256: the bytes are copied to the end of a word *)
HexToU256(digits) ==
    LET v     == HexToBytes(digits)
        start == Width - Len(v)
    IN  FromBigEndian([j \in 1 .. Width |-> IF j > start THEN v[j - start] ELSE 0])
=============================================================================
