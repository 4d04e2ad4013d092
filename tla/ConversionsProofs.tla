--------------------------- MODULE ConversionsProofs ---------------------------
(***************************************************************************)
(* What the conversions compute, for words of any width.                   *)
(***************************************************************************)
EXTENDS Conversions, SequenceTheorems, WellFoundedInduction, TLAPS

Byte == 0 .. 255
Word == [1 .. Width -> Byte]

-----------------------------------------------------------------------------
(***************************************************************************)
(* Induction over the numbers, as a fact about sets: the least number that *)
(* is not in the set cannot be.                                            *)
(***************************************************************************)
LEMMA LeastNumber ==
    ASSUME NEW T, T \subseteq Nat, T # {}
    PROVE  \E n \in T : \A m \in T : n <= m
<1> DEFINE R == OpToRel(<, Nat)
<1>1. IsWellFoundedOn(R, Nat)
    BY NatLessThanWellFounded
<1>2. R = {s \in Nat \X Nat : s[1] < s[2]}
    BY DEF OpToRel
<1> HIDE DEF R
<1>3. PICK n \in T : \A m \in T : ~(<<m, n>> \in R)
    BY <1>1, WFMin
<1>4. ASSUME NEW m \in T PROVE n <= m
  <2>1. m \in Nat /\ n \in Nat
      OBVIOUS
  <2>2. ~(m < n)
      BY <1>2, <1>3, <2>1
  <2> QED BY <2>1, <2>2
<1> QED BY <1>4

LEMMA Induction ==
    ASSUME NEW S, 0 \in S, \A n \in Nat : n \in S => n + 1 \in S
    PROVE  Nat \subseteq S
<1> DEFINE T == Nat \ S
<1> SUFFICES ASSUME T # {} PROVE FALSE
    OBVIOUS
<1>1. PICK n \in T : \A m \in T : n <= m
    BY LeastNumber
<1>2. n \in Nat /\ n # 0 /\ n \notin S
    BY <1>1
<1>3. n - 1 \in Nat /\ ~(n <= n - 1) /\ (n - 1) + 1 = n
    BY <1>2
<1>4. n - 1 \in S
    BY <1>1, <1>3
<1> QED BY <1>2, <1>3, <1>4

(* The definition of value is one: there is such a function. *)
IsValue(g, base, digits, n) ==
    g = [k \in 0 .. n |-> IF k = 0 THEN 0 ELSE base * g[k - 1] + digits[k]]

(* The recursive definition of the value of a word is met by a function. *)
LEMMA ValueExists ==
    ASSUME NEW base, NEW digits, NEW n \in Nat
    PROVE  \E g : IsValue(g, base, digits, n)
<1> DEFINE Is(g, m) == IsValue(g, base, digits, m)
           S == {m \in Nat : \E g : Is(g, m)}
<1>1. 0 \in S
  <2>1. Is([k \in 0 .. 0 |-> 0], 0)
      BY DEF IsValue
  <2> QED BY <2>1
<1>2. ASSUME NEW m \in Nat, m \in S PROVE m + 1 \in S
  <2>1. PICK g : Is(g, m)
      BY <1>2
  <2> DEFINE h == [k \in 0 .. m + 1 |->
                      IF k = m + 1 THEN base * g[m] + digits[m + 1] ELSE g[k]]
  <2>2. \A k \in 0 .. m + 1 :
            h[k] = IF k = 0 THEN 0 ELSE base * h[k - 1] + digits[k]
    <3> SUFFICES ASSUME NEW k \in 0 .. m + 1
                 PROVE  h[k] = IF k = 0 THEN 0 ELSE base * h[k - 1] + digits[k]
        OBVIOUS
    <3>1. CASE k = m + 1
      <4>1. k # 0 /\ k - 1 = m /\ m \in 0 .. m + 1 /\ m # m + 1
          BY <3>1
      <4>2. h[k] = base * g[m] + digits[m + 1] /\ h[m] = g[m]
          BY <3>1, <4>1
      <4> QED BY <3>1, <4>1, <4>2
    <3>2. CASE k # m + 1
      <4>1. k \in 0 .. m
          BY <3>2
      <4>2. h[k] = g[k] /\ g[k] = IF k = 0 THEN 0 ELSE base * g[k - 1] + digits[k]
          BY <2>1, <3>2, <4>1 DEF IsValue
      <4>3. k # 0 => k - 1 \in 0 .. m + 1 /\ k - 1 # m + 1
          BY <4>1
      <4>4. k # 0 => h[k - 1] = g[k - 1]
          BY <4>3
      <4> QED BY <4>2, <4>4
    <3> QED BY <3>1, <3>2
  <2>3. h = [k \in 0 .. m + 1 |-> h[k]]
      OBVIOUS
  <2> HIDE DEF h
  <2>4. Is(h, m + 1)
      BY <2>2, <2>3 DEF IsValue
  <2> QED BY <2>4
<1> HIDE DEF S
<1>3. n \in S
    BY <1>1, <1>2, Induction
<1> QED BY <1>3 DEF S

(* The value of the first j digits, from that of the first j - 1 *)
LEMMA ValueSteps ==
    ASSUME NEW base \in Nat, NEW digits \in Seq(Nat)
    PROVE  \E value \in [0 .. Len(digits) -> Nat] :
              /\ ValueOf(base, digits) = value[Len(digits)]
              /\ value[0] = 0
              /\ \A k \in 1 .. Len(digits) :
                    value[k] = base * value[k - 1] + digits[k]
<1> DEFINE Is(g) == IsValue(g, base, digits, Len(digits))
           value == CHOOSE g : Is(g)
<1>1. Len(digits) \in Nat
    OBVIOUS
<1>2. \E g : Is(g)
    BY <1>1, ValueExists
<1>3. Is(value)
    BY <1>2
<1>4. ValueOf(base, digits) = value[Len(digits)]
    BY DEF ValueOf, IsValue
<1> HIDE DEF value
<1>5. /\ value[0] = 0
      /\ \A k \in 1 .. Len(digits) : value[k] = base * value[k - 1] + digits[k]
      /\ value = [k \in 0 .. Len(digits) |-> value[k]]
  <2>1. value = [k \in 0 .. Len(digits) |->
                    IF k = 0 THEN 0 ELSE base * value[k - 1] + digits[k]]
      BY <1>3 DEF IsValue
  <2>2. \A k \in 0 .. Len(digits) :
            value[k] = IF k = 0 THEN 0 ELSE base * value[k - 1] + digits[k]
      BY <2>1
  <2>3. value = [k \in 0 .. Len(digits) |-> value[k]]
      BY <2>1
  <2> QED BY <1>1, <2>2, <2>3
<1> DEFINE S == {k \in Nat : k \in 0 .. Len(digits) => value[k] \in Nat}
<1>6. \A k \in Nat : k \in S => k + 1 \in S
  <2> SUFFICES ASSUME NEW k \in S, k + 1 \in 0 .. Len(digits)
               PROVE  value[k + 1] \in Nat
      OBVIOUS
  <2>1. k \in 0 .. Len(digits) /\ k + 1 \in 1 .. Len(digits) /\ (k + 1) - 1 = k
      BY <1>1
  <2>2. value[k] \in Nat /\ digits[k + 1] \in Nat
      BY <2>1, ElementOfSeq
  <2>3. value[k + 1] = base * value[k] + digits[k + 1]
      BY <1>5, <2>1
  <2>4. \A x, y \in Nat : base * x + y \in Nat
      OBVIOUS
  <2> QED BY <2>2, <2>3, <2>4
<1>7. Nat \subseteq S
  <2>1. 0 \in S
      BY <1>5
  <2> HIDE DEF S
  <2> QED BY <1>6, <2>1, Induction
<1>8. value \in [0 .. Len(digits) -> Nat]
    BY <1>1, <1>5, <1>7
<1> QED BY <1>4, <1>5, <1>8

LEMMA ValueType ==
    ASSUME NEW base \in Nat, NEW digits \in Seq(Nat)
    PROVE  ValueOf(base, digits) \in Nat
<1>1. PICK value \in [0 .. Len(digits) -> Nat] :
          ValueOf(base, digits) = value[Len(digits)]
  <2>1. \E value \in [0 .. Len(digits) -> Nat] :
            /\ ValueOf(base, digits) = value[Len(digits)]
            /\ value[0] = 0
            /\ \A k \in 1 .. Len(digits) :
                  value[k] = base * value[k - 1] + digits[k]
      BY ValueSteps
  <2> QED BY <2>1, Zenon
<1>2. Len(digits) \in 0 .. Len(digits)
    OBVIOUS
<1> QED BY <1>1, <1>2

(* Likewise for rest. *)
IsRest(g, n, m) ==
    g = [j \in 0 .. m |-> IF j = 0 THEN n ELSE g[j - 1] \div 256]

(* So is that of what remains of a number after its last bytes. *)
LEMMA RestExists ==
    ASSUME NEW n, NEW last \in Nat
    PROVE  \E g : IsRest(g, n, last)
<1> DEFINE S == {m \in Nat : \E g : IsRest(g, n, m)}
<1>1. 0 \in S
  <2>1. IsRest([j \in 0 .. 0 |-> n], n, 0)
      BY DEF IsRest
  <2> QED BY <2>1
<1>2. ASSUME NEW m \in Nat, m \in S PROVE m + 1 \in S
  <2>1. PICK g : IsRest(g, n, m)
      BY <1>2
  <2> DEFINE h == [j \in 0 .. m + 1 |-> IF j = m + 1 THEN g[m] \div 256 ELSE g[j]]
  <2>2. ASSUME NEW j \in 0 .. m + 1
        PROVE  h[j] = IF j = 0 THEN n ELSE h[j - 1] \div 256
    <3>1. CASE j = m + 1
      <4>1. j # 0 /\ j - 1 = m /\ m \in 0 .. m + 1 /\ m # m + 1
          BY <3>1
      <4>2. h[j] = g[m] \div 256 /\ h[m] = g[m]
          BY <3>1, <4>1
      <4> QED BY <3>1, <4>1, <4>2
    <3>2. CASE j # m + 1
      <4>1. j \in 0 .. m
          BY <3>2
      <4>2. h[j] = g[j] /\ g[j] = IF j = 0 THEN n ELSE g[j - 1] \div 256
          BY <2>1, <3>2, <4>1 DEF IsRest
      <4>3. j # 0 => j - 1 \in 0 .. m + 1 /\ j - 1 # m + 1
          BY <4>1
      <4>4. j # 0 => h[j - 1] = g[j - 1]
          BY <4>3
      <4> QED BY <4>2, <4>4
    <3> QED BY <3>1, <3>2
  <2>3. h = [j \in 0 .. m + 1 |-> h[j]]
      OBVIOUS
  <2> HIDE DEF h
  <2>4. IsRest(h, n, m + 1)
      BY ZenonT(30), <2>2, <2>3 DEF IsRest
  <2> QED BY <2>4
<1> HIDE DEF S
<1>3. last \in S
    BY <1>1, <1>2, Induction
<1> QED BY <1>3 DEF S

(* What remains of a number, byte by byte from the last one *)
LEMMA RestSteps ==
    ASSUME NEW n \in Nat
    PROVE  \E rest \in [0 .. Width - 1 -> Nat] :
              /\ ToBigEndian(n) = [j \in 1 .. Width |-> rest[Width - j] % 256]
              /\ rest[0] = n
              /\ \A j \in 1 .. Width - 1 : rest[j] = rest[j - 1] \div 256
<1> DEFINE Is(g) == IsRest(g, n, Width - 1)
           rest == CHOOSE g : Is(g)
<1>1. Width - 1 \in Nat
    BY WidthAssumption
<1>2. \E g : Is(g)
    BY <1>1, RestExists
<1>3. Is(rest)
    BY <1>2
<1>4. ToBigEndian(n) = [j \in 1 .. Width |-> rest[Width - j] % 256]
    BY DEF ToBigEndian, IsRest
<1> HIDE DEF rest
<1>5. /\ rest[0] = n
      /\ \A j \in 1 .. Width - 1 : rest[j] = rest[j - 1] \div 256
      /\ rest = [j \in 0 .. Width - 1 |-> rest[j]]
  <2>1. rest = [j \in 0 .. Width - 1 |-> IF j = 0 THEN n ELSE rest[j - 1] \div 256]
      BY <1>3 DEF IsRest
  <2>2. \A j \in 0 .. Width - 1 :
            rest[j] = IF j = 0 THEN n ELSE rest[j - 1] \div 256
      BY <2>1
  <2>3. rest = [j \in 0 .. Width - 1 |-> rest[j]]
      BY <2>1
  <2> HIDE DEF Is
  <2>4. rest[0] = n
      BY <1>1, <2>2
  <2>5. ASSUME NEW j \in 1 .. Width - 1 PROVE rest[j] = rest[j - 1] \div 256
    <3>1. j \in 0 .. Width - 1 /\ j # 0
        BY <1>1
    <3> QED BY <2>2, <3>1
  <2> QED BY <2>3, <2>4, <2>5
<1> DEFINE S == {j \in Nat : j \in 0 .. Width - 1 => rest[j] \in Nat}
<1>6. ASSUME NEW j \in Nat, j \in S PROVE j + 1 \in S
  <2> SUFFICES ASSUME j + 1 \in 0 .. Width - 1
               PROVE  rest[j + 1] \in Nat
      OBVIOUS
  <2>1. j \in 0 .. Width - 1 /\ j + 1 \in 1 .. Width - 1 /\ (j + 1) - 1 = j
      BY <1>1
  <2>2. rest[j] \in Nat /\ rest[j + 1] = rest[j] \div 256
      BY ZenonT(30), <1>5, <1>6, <2>1
  <2>3. \A x \in Nat : x \div 256 \in Nat
      OBVIOUS
  <2> QED BY <2>2, <2>3
<1>7. Nat \subseteq S
  <2>1. 0 \in S
      BY <1>5
  <2> HIDE DEF S
  <2> QED BY <1>6, <2>1, Induction
<1>8. rest \in [0 .. Width - 1 -> Nat]
  <2>1. \A j \in 0 .. Width - 1 : rest[j] \in Nat
      BY <1>1, <1>7
  <2> HIDE DEF Is
  <2> QED BY <1>5, <2>1
<1> QED BY ZenonT(30), <1>4, <1>5, <1>8

-----------------------------------------------------------------------------
LEMMA ToBigEndianType ==
    ASSUME NEW n \in Nat
    PROVE  ToBigEndian(n) \in Word
<1>1. PICK rest \in [0 .. Width - 1 -> Nat] :
          ToBigEndian(n) = [j \in 1 .. Width |-> rest[Width - j] % 256]
  <2>1. \E rest \in [0 .. Width - 1 -> Nat] :
            /\ ToBigEndian(n) = [j \in 1 .. Width |-> rest[Width - j] % 256]
            /\ rest[0] = n
            /\ \A j \in 1 .. Width - 1 : rest[j] = rest[j - 1] \div 256
      BY RestSteps
  <2> QED BY <2>1, Zenon
<1>2. \A j \in 1 .. Width : rest[Width - j] \in Nat
    BY WidthAssumption
<1>3. \A x \in Nat : x % 256 \in Byte
    BY DEF Byte
<1> QED BY <1>1, <1>2, <1>3 DEF Word

LEMMA WordIsSeq ==
    ASSUME NEW w \in Word
    PROVE  w \in Seq(Byte) /\ w \in Seq(Nat) /\ Len(w) = Width
           /\ \A j \in 1 .. Width : w[j] \in Byte
<1>1. Width \in Nat
    BY WidthAssumption
<1>2. w \in Seq(Byte)
    BY <1>1 DEF Word
<1>3. Len(w) = Width
    BY <1>1, <1>2 DEF Word
<1>4. \A j \in 1 .. Width : w[j] \in Byte
    BY DEF Word
<1>5. w \in Seq(Nat)
  <2>1. Byte \subseteq Nat
      BY DEF Byte
  <2> QED BY <1>2, <2>1, SeqMonotonic
<1> QED BY <1>2, <1>3, <1>4, <1>5

(***************************************************************************)
(* A word is the bytes of its number: no two words are one number, and     *)
(* none is more than Width bytes long.                                     *)
(***************************************************************************)
THEOREM WordsReadBack ==
    ASSUME NEW w \in Word
    PROVE  FromBigEndian(w) \in Nat /\ ToBigEndian(FromBigEndian(w)) = w
<1> DEFINE n == FromBigEndian(w)
<1>1. PICK value \in [0 .. Width -> Nat] :
          /\ n = value[Width]
          /\ \A k \in 1 .. Width : value[k] = 256 * value[k - 1] + w[k]
  <2>1. w \in Seq(Nat) /\ Len(w) = Width
      BY WordIsSeq
  <2>2. \E value \in [0 .. Len(w) -> Nat] :
            /\ ValueOf(256, w) = value[Len(w)]
            /\ value[0] = 0
            /\ \A k \in 1 .. Len(w) : value[k] = 256 * value[k - 1] + w[k]
    <3>1. 256 \in Nat
        OBVIOUS
    <3> HIDE DEF n
    <3> QED BY <2>1, <3>1, ValueSteps, Zenon
  <2> QED BY <2>1, <2>2 DEF FromBigEndian
<1>2. n \in Nat
    BY <1>1, WidthAssumption
<1> HIDE DEF n
<1>3. PICK rest \in [0 .. Width - 1 -> Nat] :
          /\ ToBigEndian(n) = [j \in 1 .. Width |-> rest[Width - j] % 256]
          /\ rest[0] = n
          /\ \A j \in 1 .. Width - 1 : rest[j] = rest[j - 1] \div 256
    BY <1>2, RestSteps
<1>4. \A a \in Nat, b \in Byte :
          (256 * a + b) \div 256 = a /\ (256 * a + b) % 256 = b
    BY DEF Byte
<1> DEFINE S == {j \in Nat : j \in 0 .. Width - 1 => rest[j] = value[Width - j]}
<1>5. ASSUME NEW j \in Nat, j \in S PROVE j + 1 \in S
  <2> SUFFICES ASSUME j + 1 \in 0 .. Width - 1
               PROVE  rest[j + 1] = value[Width - (j + 1)]
      OBVIOUS
  <2>1. /\ j \in 0 .. Width - 1 /\ j + 1 \in 1 .. Width - 1 /\ (j + 1) - 1 = j
        /\ Width - j \in 1 .. Width /\ (Width - j) - 1 = Width - (j + 1)
        /\ Width - (j + 1) \in 0 .. Width
      BY WidthAssumption
  <2>2. rest[j] = 256 * value[Width - (j + 1)] + w[Width - j]
      BY <1>1, <1>5, <2>1
  <2>3. value[Width - (j + 1)] \in Nat /\ w[Width - j] \in Byte
      BY <2>1, WordIsSeq
  <2> QED BY <1>3, <1>4, <2>1, <2>2, <2>3
<1>6. Nat \subseteq S
  <2>1. 0 \in S
      BY <1>1, <1>3, WidthAssumption
  <2> HIDE DEF S
  <2> QED BY <1>5, <2>1, Induction
<1>7. ASSUME NEW j \in 1 .. Width PROVE rest[Width - j] % 256 = w[j]
  <2>1. /\ Width - j \in 0 .. Width - 1 /\ Width - (Width - j) = j
        /\ j - 1 \in 0 .. Width
      BY WidthAssumption
  <2>2. rest[Width - j] = 256 * value[j - 1] + w[j]
      BY <1>1, <1>6, <2>1
  <2>3. value[j - 1] \in Nat /\ w[j] \in Byte
      BY <2>1, WordIsSeq
  <2> QED BY SMTT(30), <1>4, <2>2, <2>3
<1>8. ToBigEndian(n) = [j \in 1 .. Width |-> w[j]]
    BY <1>3, <1>7
<1>9. w = [j \in 1 .. Width |-> w[j]]
    BY DEF Word
<1> QED BY <1>2, <1>8, <1>9 DEF n

-----------------------------------------------------------------------------
(* By way of text *)

(* The digits of a hexadecimal number, which a balance is read from *)
LEMMA HexDigitsType ==
    ASSUME NEW v \in Seq(Byte)
    PROVE  HexDigits(v) \in Seq(0 .. 15) /\ Len(HexDigits(v)) = 2 * Len(v)
<1> DEFINE digits == HexDigits(v)
           m      == 2 * Len(v)
<1>1. Len(v) \in Nat /\ m \in Nat
    OBVIOUS
<1>2. ASSUME NEW d \in 1 .. m
      PROVE  (IF d % 2 = 1 THEN v[(d + 1) \div 2] \div 16
                           ELSE v[(d + 1) \div 2] % 16) \in 0 .. 15
  <2>1. (d + 1) \div 2 \in 1 .. Len(v)
      BY <1>1
  <2>2. v[(d + 1) \div 2] \in Byte
      BY <2>1
  <2>3. \A b \in Byte : b \div 16 \in 0 .. 15 /\ b % 16 \in 0 .. 15
      BY DEF Byte
  <2> QED BY <2>2, <2>3
<1>3. digits = [d \in 1 .. m |->
                   IF d % 2 = 1 THEN v[(d + 1) \div 2] \div 16
                                ELSE v[(d + 1) \div 2] % 16]
    BY DEF HexDigits
<1> HIDE DEF digits, m
<1>4. digits \in [1 .. m -> 0 .. 15]
    BY <1>2, <1>3
<1>5. digits \in Seq(0 .. 15) /\ Len(digits) = m
    BY <1>1, <1>4
<1> QED BY <1>5 DEF digits, m

(***************************************************************************)
(* hex_to_u256 reads a word printed in hexadecimal as the number it is.    *)
(***************************************************************************)
THEOREM HexReadsBack ==
    ASSUME NEW w \in Word
    PROVE  HexToU256(HexDigits(w)) = FromBigEndian(w)
<1> DEFINE digits == HexDigits(w)
<1>1. w \in Seq(Byte) /\ Len(w) = Width /\ Width \in Nat
    BY WordIsSeq, WidthAssumption
<1>2. Len(digits) = 2 * Width /\ Len(digits) % 2 # 1 /\ Len(digits) \div 2 = Width
    BY <1>1, HexDigitsType
<1>3. ASSUME NEW j \in 1 .. Width
      PROVE  16 * digits[2 * j - 1] + digits[2 * j] = w[j]
  <2>1. 2 * j - 1 \in 1 .. 2 * Len(w) /\ 2 * j \in 1 .. 2 * Len(w)
      BY <1>1
  <2>2. /\ (2 * j - 1) % 2 = 1 /\ ((2 * j - 1) + 1) \div 2 = j
        /\ (2 * j) % 2 # 1 /\ (2 * j + 1) \div 2 = j
      OBVIOUS
  <2>3. digits[2 * j - 1] = w[j] \div 16
      BY <2>1, <2>2 DEF HexDigits
  <2>4. digits[2 * j] = w[j] % 16
      BY <2>1, <2>2 DEF HexDigits
  <2>5. \A b \in Byte : 16 * (b \div 16) + (b % 16) = b
      BY DEF Byte
  <2>6. w[j] \in Byte
      BY <1>1
  <2> QED BY <2>3, <2>4, <2>5, <2>6
<1>4. HexToBytes(digits) = [j \in 1 .. Width |-> 16 * digits[2 * j - 1] + digits[2 * j]]
  <2> HIDE DEF digits
  <2> QED BY <1>2 DEF HexToBytes
<1>5. HexToBytes(digits) = w
  <2>1. w = [j \in 1 .. Width |-> w[j]]
      BY DEF Word
  <2> HIDE DEF digits
  <2> QED BY <1>3, <1>4, <2>1
<1> HIDE DEF digits
<1>6. HexToU256(digits)
         = FromBigEndian([j \in 1 .. Width |-> IF j > Width - Width
                                               THEN w[j - (Width - Width)] ELSE 0])
    BY <1>1, <1>5 DEF HexToU256
<1>7. [j \in 1 .. Width |-> IF j > Width - Width
                            THEN w[j - (Width - Width)] ELSE 0] = w
  <2>1. w = [j \in 1 .. Width |-> w[j]]
      BY DEF Word
  <2>2. \A j \in 1 .. Width : j > Width - Width /\ j - (Width - Width) = j
      BY <1>1
  <2> QED BY <2>1, <2>2
<1> QED BY <1>6, <1>7 DEF digits

-----------------------------------------------------------------------------
(* What bytes_to_big_int makes of an amount *)

(* Reading one more byte keeps the order, as two decimal digits or a byte. *)
LEMMA OneMoreByte ==
    ASSUME NEW x \in Nat, NEW y \in Nat, x <= y,
           NEW high \in Nat, NEW low \in Nat
    PROVE  10 * (10 * x + high) + low <= 256 * y + (16 * high + low)
OBVIOUS

LEMMA SameByte ==
    ASSUME NEW x \in Nat, NEW y \in Nat, x <= y, NEW b \in Nat
    PROVE  256 * x + b <= 256 * y + b
OBVIOUS

LEMMA BytesOf == \A x \in Nat : 256 * (x \div 256) + (x % 256) = x
OBVIOUS

(* Two digits of the text, read as decimal ones, are at most their byte. *)
LEMMA DecimalIsLess ==
    ASSUME NEW s \in Seq(Byte)
    PROVE  DecimalValue(HexDigits(s)) <= FromBigEndian(s)
<1> DEFINE digits == HexDigits(s)
<1>1. s \in Seq(Nat) /\ Len(s) \in Nat
  <2>1. Byte \subseteq Nat
      BY DEF Byte
  <2>2. s \in Seq(Nat)
      BY <2>1, SeqMonotonic
  <2> QED BY <2>2
<1>2. digits \in Seq(Nat) /\ Len(digits) = 2 * Len(s)
  <2>1. 0 .. 15 \subseteq Nat
      OBVIOUS
  <2>2. digits \in Seq(0 .. 15) /\ Len(digits) = 2 * Len(s)
      BY HexDigitsType
  <2> HIDE DEF digits
  <2> QED BY <2>1, <2>2, SeqMonotonic
<1>3. ASSUME NEW j \in 1 .. Len(s)
      PROVE  /\ digits[2 * j - 1] = s[j] \div 16
             /\ digits[2 * j] = s[j] % 16
  <2>1. 2 * j - 1 \in 1 .. 2 * Len(s) /\ 2 * j \in 1 .. 2 * Len(s)
      BY <1>1
  <2>2. /\ (2 * j - 1) % 2 = 1 /\ ((2 * j - 1) + 1) \div 2 = j
        /\ (2 * j) % 2 # 1 /\ (2 * j + 1) \div 2 = j
      OBVIOUS
  <2> QED BY <2>1, <2>2 DEF HexDigits
<1>4. PICK bytes \in [0 .. Len(s) -> Nat] :
          /\ ValueOf(256, s) = bytes[Len(s)]
          /\ bytes[0] = 0
          /\ \A k \in 1 .. Len(s) : bytes[k] = 256 * bytes[k - 1] + s[k]
  <2>1. 256 \in Nat
      OBVIOUS
  <2> QED BY <1>1, <2>1, ValueSteps, Zenon
<1> HIDE DEF digits
<1>5. PICK text \in [0 .. Len(digits) -> Nat] :
          /\ ValueOf(10, digits) = text[Len(digits)]
          /\ text[0] = 0
          /\ \A k \in 1 .. Len(digits) : text[k] = 10 * text[k - 1] + digits[k]
  <2>1. 10 \in Nat
      OBVIOUS
  <2> QED BY <1>2, <2>1, ValueSteps, Zenon
<1> DEFINE S == {k \in Nat : k \in 0 .. Len(s) => text[2 * k] <= bytes[k]}
<1>6. ASSUME NEW k \in Nat, k \in S PROVE k + 1 \in S
  <2> SUFFICES ASSUME k + 1 \in 0 .. Len(s)
               PROVE  text[2 * (k + 1)] <= bytes[k + 1]
      OBVIOUS
  <2>1. /\ k \in 0 .. Len(s) /\ k + 1 \in 1 .. Len(s) /\ (k + 1) - 1 = k
        /\ 2 * k \in 0 .. Len(digits) /\ 2 * (k + 1) - 1 \in 1 .. Len(digits)
        /\ 2 * (k + 1) \in 1 .. Len(digits)
        /\ (2 * (k + 1) - 1) - 1 = 2 * k
      BY <1>1, <1>2
  <2> DEFINE b == s[k + 1]
             x == text[2 * k]
             y == bytes[k]
  <2>2. b \in Byte /\ x \in Nat /\ y \in Nat /\ x <= y
      BY <1>6, <2>1
  <2>3. text[2 * (k + 1) - 1] = 10 * x + (b \div 16)
      BY <1>3, <1>5, <2>1
  <2>4. text[2 * (k + 1)] = 10 * (10 * x + (b \div 16)) + (b % 16)
    <3>1. text[2 * (k + 1)] = 10 * text[2 * (k + 1) - 1] + digits[2 * (k + 1)]
        BY <1>5, <2>1
    <3>2. digits[2 * (k + 1)] = b % 16
        BY <1>3, <2>1
    <3> DEFINE mid  == text[2 * (k + 1) - 1]
               last == digits[2 * (k + 1)]
               all  == text[2 * (k + 1)]
    <3> HIDE DEF b, x, mid, last, all
    <3>3. mid = 10 * x + (b \div 16)
        BY <2>3 DEF mid
    <3>4. last = b % 16
        BY <3>2 DEF last
    <3>5. all = 10 * mid + last
        BY <3>1 DEF mid, last, all
    <3>6. all = 10 * (10 * x + (b \div 16)) + (b % 16)
        BY <3>3, <3>4, <3>5
    <3> QED BY <3>6 DEF all
  <2>5. bytes[k + 1] = 256 * y + b
      BY <1>4, <2>1
  <2> HIDE DEF b, x, y
  <2>6. b \div 16 \in 0 .. 15 /\ b % 16 \in 0 .. 15
      BY <2>2 DEF Byte
  <2>7. 16 * (b \div 16) + (b % 16) = b
      BY <2>2 DEF Byte
  <2> DEFINE high == b \div 16
             low  == b % 16
  <2> HIDE DEF high, low
  <2>8. 10 * (10 * x + high) + low <= 256 * y + (16 * high + low)
    <3>1. high \in Nat /\ low \in Nat
        BY <2>6 DEF high, low
    <3> QED BY <2>2, <3>1, OneMoreByte
  <2>9. 256 * y + (16 * high + low) = bytes[k + 1]
      BY <2>5, <2>7 DEF high, low
  <2> QED BY <2>4, <2>8, <2>9 DEF high, low
<1>7. Nat \subseteq S
  <2>1. 0 \in S
      BY <1>4, <1>5
  <2> HIDE DEF S
  <2> QED BY <1>6, <2>1, Induction
<1>8. text[2 * Len(s)] <= bytes[Len(s)]
    BY <1>1, <1>7
<1> QED BY <1>2, <1>4, <1>5, <1>8 DEF DecimalValue, FromBigEndian, digits

(* Without its leading bytes a number is not larger. *)
LEMMA SuffixIsLess ==
    ASSUME NEW s \in Seq(Nat), NEW skip \in 0 .. Len(s) - 1
    PROVE  FromBigEndian(SubSeq(s, skip + 1, Len(s))) <= FromBigEndian(s)
<1> DEFINE t == SubSeq(s, skip + 1, Len(s))
<1>1. /\ Len(s) \in Nat /\ t \in Seq(Nat) /\ Len(t) = Len(s) - skip
      /\ \A k \in 1 .. Len(t) : t[k] = s[skip + k]
  <2>1. skip + 1 \in 1 .. Len(s) + 1 /\ Len(s) \in Nat
      OBVIOUS
  <2> QED BY <2>1, SubSeqProperties
<1> HIDE DEF t
<1>2. 256 \in Nat
    OBVIOUS
<1>3. PICK whole \in [0 .. Len(s) -> Nat] :
          /\ ValueOf(256, s) = whole[Len(s)]
          /\ whole[0] = 0
          /\ \A k \in 1 .. Len(s) : whole[k] = 256 * whole[k - 1] + s[k]
    BY <1>2, ValueSteps, Zenon
<1>4. PICK part \in [0 .. Len(t) -> Nat] :
          /\ ValueOf(256, t) = part[Len(t)]
          /\ part[0] = 0
          /\ \A k \in 1 .. Len(t) : part[k] = 256 * part[k - 1] + t[k]
    BY <1>1, <1>2, ValueSteps, Zenon
<1> DEFINE S == {k \in Nat : k \in 0 .. Len(t) => part[k] <= whole[skip + k]}
<1>5. ASSUME NEW k \in Nat, k \in S PROVE k + 1 \in S
  <2> SUFFICES ASSUME k + 1 \in 0 .. Len(t)
               PROVE  part[k + 1] <= whole[skip + (k + 1)]
      OBVIOUS
  <2>1. /\ k \in 0 .. Len(t) /\ k + 1 \in 1 .. Len(t) /\ (k + 1) - 1 = k
        /\ skip + k \in 0 .. Len(s) /\ skip + (k + 1) \in 1 .. Len(s)
        /\ (skip + (k + 1)) - 1 = skip + k
      BY <1>1
  <2>2. part[k + 1] = 256 * part[k] + s[skip + (k + 1)]
      BY <1>1, <1>4, <2>1
  <2>3. whole[skip + (k + 1)] = 256 * whole[skip + k] + s[skip + (k + 1)]
      BY <1>3, <2>1
  <2>4. part[k] \in Nat /\ whole[skip + k] \in Nat
      BY <2>1
  <2>5. part[k] <= whole[skip + k]
      BY <1>5, <2>1
  <2>6. s[skip + (k + 1)] \in Nat
      BY <2>1, ElementOfSeq
  <2> DEFINE x == part[k]
             y == whole[skip + k]
             b == s[skip + (k + 1)]
  <2> HIDE DEF x, y, b
  <2>7. 256 * x + b <= 256 * y + b
    <3>1. x \in Nat /\ y \in Nat /\ x <= y /\ b \in Nat
        BY <2>4, <2>5, <2>6 DEF x, y, b
    <3> QED BY <3>1, SameByte
  <2> QED BY <2>2, <2>3, <2>7 DEF x, y, b
<1>6. Nat \subseteq S
  <2>1. 0 \in S
      BY <1>3, <1>4
  <2> HIDE DEF S
  <2> QED BY <1>5, <2>1, Induction
<1>7. part[Len(t)] <= whole[skip + Len(t)] /\ skip + Len(t) = Len(s)
    BY <1>1, <1>6
<1> QED BY <1>3, <1>4, <1>7 DEF FromBigEndian, t

(* A word holds a number, or what is left of one that is too large. *)
LEMMA WordIsLess ==
    ASSUME NEW n \in Nat
    PROVE  FromBigEndian(ToBigEndian(n)) <= n
<1> DEFINE w == ToBigEndian(n)
<1>1. w \in Seq(Nat) /\ Len(w) = Width /\ Width \in Nat /\ Width >= 1
    BY ToBigEndianType, WordIsSeq, WidthAssumption
<1>2. PICK rest \in [0 .. Width - 1 -> Nat] :
          /\ w = [j \in 1 .. Width |-> rest[Width - j] % 256]
          /\ rest[0] = n
          /\ \A j \in 1 .. Width - 1 : rest[j] = rest[j - 1] \div 256
    BY RestSteps, Zenon
<1> HIDE DEF w
<1>3. PICK value \in [0 .. Len(w) -> Nat] :
          /\ ValueOf(256, w) = value[Len(w)]
          /\ value[0] = 0
          /\ \A k \in 1 .. Len(w) : value[k] = 256 * value[k - 1] + w[k]
  <2>1. 256 \in Nat
      OBVIOUS
  <2> QED BY <1>1, <2>1, ValueSteps, Zenon
<1>4. /\ \A x \in Nat : x % 256 \in Nat /\ x \div 256 \in Nat
      /\ \A x \in Nat : 256 * (x \div 256) + (x % 256) = x
  <2>1. \A x \in Nat : x % 256 \in Nat
      OBVIOUS
  <2>2. \A x \in Nat : x \div 256 \in Nat
      OBVIOUS
  <2> QED BY <2>1, <2>2, BytesOf
<1> DEFINE S == {k \in Nat : k + 1 \in 1 .. Width => value[k + 1] <= rest[Width - (k + 1)]}
<1>5. 0 \in S
  <2>1. 1 \in 1 .. Width /\ Width - 1 \in 0 .. Width - 1
      BY <1>1
  <2>2. value[1] = rest[Width - 1] % 256 /\ rest[Width - 1] \in Nat
    <3>1. value[1] = 256 * value[0] + w[1]
        BY <1>1, <1>3, <2>1
    <3>2. w[1] = rest[Width - 1] % 256 /\ rest[Width - 1] \in Nat
        BY <1>2, <2>1
    <3> QED BY <1>3, <1>4, <3>1, <3>2
  <2> QED BY <1>4, <2>2
<1>6. ASSUME NEW k \in Nat, k \in S PROVE k + 1 \in S
  <2> DEFINE j == Width - (k + 2)
  <2> SUFFICES ASSUME (k + 1) + 1 \in 1 .. Width
               PROVE  value[(k + 1) + 1] <= rest[Width - ((k + 1) + 1)]
      OBVIOUS
  <2>1. /\ k + 1 \in 1 .. Width /\ k + 2 \in 1 .. Width /\ (k + 2) - 1 = k + 1
        /\ j \in 0 .. Width - 1 /\ j + 1 \in 1 .. Width - 1 /\ (j + 1) - 1 = j
        /\ Width - (k + 1) = j + 1 /\ (k + 1) + 1 = k + 2
        /\ k + 1 \in 0 .. Width
      BY <1>1
  <2> HIDE DEF j
  <2>2. value[k + 2] = 256 * value[k + 1] + w[k + 2]
      BY <1>1, <1>3, <2>1
  <2>3. w[k + 2] = rest[j] % 256 /\ rest[j] \in Nat
      BY <1>2, <2>1 DEF j
  <2>4. rest[j + 1] = rest[j] \div 256
      BY <1>2, <2>1
  <2>5. value[k + 1] \in Nat /\ value[k + 1] <= rest[j + 1]
      BY <1>1, <1>6, <2>1
  <2>6. value[k + 2] <= rest[j]
      BY <1>4, <2>2, <2>3, <2>4, <2>5
  <2> QED BY <2>1, <2>6 DEF j
<1>7. Nat \subseteq S
  <2> HIDE DEF S
  <2> QED BY <1>5, <1>6, Induction
<1>8. value[Width] <= rest[0]
  <2>1. /\ Width - 1 \in Nat /\ (Width - 1) + 1 = Width /\ Width - Width = 0
        /\ Width \in 1 .. Width
      BY <1>1
  <2>2. Width - 1 \in S
      BY <1>7, <2>1
  <2>3. (Width - 1) + 1 \in 1 .. Width
      BY <2>1
  <2>4. value[(Width - 1) + 1] <= rest[Width - ((Width - 1) + 1)]
      BY <2>2, <2>3
  <2> QED BY <2>1, <2>4
<1> QED BY <1>1, <1>2, <1>3, <1>8 DEF FromBigEndian, w

(***************************************************************************)
(* Whatever bytes_to_big_int takes for decimal digits, and however many    *)
(* leading bytes it drops until it can: a tree, a message or its fees may  *)
(* get less than the transaction says, but never more.                     *)
(***************************************************************************)
THEOREM GetBalanceNeverMore ==
    ASSUME NEW n \in Nat
    PROVE  GetBalance(n) \in 0 .. n
<1> DEFINE v == ToBigEndian(n)
           tail(skip) == SubSeq(v, skip + 1, Len(v))
           readable == {skip \in 0 .. Len(v) - 1 :
                           skip % 2 = 0 /\ IsDecimal(HexDigits(tail(skip)))}
<1>1. v \in Seq(Byte) /\ v \in Seq(Nat) /\ Len(v) \in Nat
    BY ToBigEndianType, WordIsSeq, WidthAssumption
<1>2. BytesToBigInt(v)
         = IF readable = {} THEN 0 ELSE DecimalValue(HexDigits(tail(Min(readable))))
    BY DEF BytesToBigInt
<1>3. FromBigEndian(v) <= n
    BY WordIsLess
<1> HIDE DEF v
<1>4. CASE readable = {}
    BY <1>2, <1>4 DEF GetBalance, v
<1>5. CASE readable # {}
  <2>1. readable \subseteq Nat
      BY <1>1
  <2>2. \E x \in readable : \A y \in readable : x <= y
    <3> HIDE DEF readable
    <3> QED BY <1>5, <2>1, LeastNumber
  <2>3. Min(readable) \in readable
    <3> HIDE DEF readable
    <3> QED BY <2>2 DEF Min
  <2> DEFINE skip == Min(readable)
             s    == tail(skip)
  <2>4. skip \in 0 .. Len(v) - 1
      BY <2>3
  <2> HIDE DEF skip
  <2>5. s \in Seq(Byte)
    <3>1. skip + 1 \in 1 .. Len(v) + 1 /\ Len(v) \in Nat
        BY <1>1, <2>4
    <3> QED BY <1>1, <3>1, SubSeqProperties
  <2>6. FromBigEndian(s) <= FromBigEndian(v)
      BY <1>1, <2>4, SuffixIsLess
  <2> HIDE DEF s
  <2>7. DecimalValue(HexDigits(s)) <= FromBigEndian(s)
      BY <2>5, DecimalIsLess
  <2>8. /\ DecimalValue(HexDigits(s)) \in Nat
        /\ FromBigEndian(s) \in Nat /\ FromBigEndian(v) \in Nat
    <3>1. 10 \in Nat /\ 256 \in Nat /\ 0 .. 15 \subseteq Nat /\ Byte \subseteq Nat
        BY DEF Byte
    <3>2. HexDigits(s) \in Seq(0 .. 15)
        BY <2>5, HexDigitsType
    <3>3. HexDigits(s) \in Seq(Nat) /\ s \in Seq(Nat)
        BY <2>5, <3>1, <3>2, SeqMonotonic
    <3> QED BY <1>1, <3>1, <3>3, ValueType DEF DecimalValue, FromBigEndian
  <2>9. GetBalance(n) = DecimalValue(HexDigits(s))
      BY <1>2, <1>5 DEF GetBalance, v, s, skip
  <2> HIDE DEF readable
  <2> QED BY <1>3, <2>6, <2>7, <2>8, <2>9
<1> QED BY <1>4, <1>5

(* What the trees need of it *)
LEMMA GetBalanceType ==
    ASSUME NEW n \in Nat
    PROVE  GetBalance(n) \in Nat
BY GetBalanceNeverMore
================================================================================
