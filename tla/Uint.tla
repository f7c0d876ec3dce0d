-------------------------------- MODULE Uint ---------------------------------
(***************************************************************************)
(* The rest of the fixed-size integers (UintCore): conversions, shifts,       *)
(* division, powers, bytes and digits, and the multiplications in assembly.   *)
(* Words are scaled down: a half has Half bits, 32 in the code, and is one    *)
(* byte where bytes are meant.  Ten is the base of decimal strings.           *)
(***************************************************************************)
EXTENDS UintCore, Sequences, Bitwise

CONSTANT Ten

Half == CHOOSE k \in 0 .. HalfBase : 2 ^ k = HalfBase
Bits == 2 * Half

AsU64(a) == IF \E i \in DOMAIN a : i > 0 /\ a[i] # 0 THEN Panic ELSE a[0]
AsU32(a) == IF a[0] \div HalfBase # 0 THEN Panic ELSE AsU64(a)
LowU32(a) == a[0] % HalfBase

\* The conversions between the sizes.
Resized(a, n) ==
  IF \E i \in DOMAIN a : i >= n /\ a[i] # 0 THEN Panic
  ELSE [i \in 0 .. n - 1 |-> IF i < Words(a) THEN a[i] ELSE 0]

Number(n, v) == [i \in 0 .. n - 1 |-> (v \div Base ^ i) % Base]

\* The two multiplications in assembly, of four words: the products in their
\* order, each added from its column on.
Products == <<<<0, 0>>, <<0, 1>>, <<0, 2>>, <<0, 3>>, <<1, 0>>, <<1, 1>>, <<1, 2>>, <<1, 3>>,
              <<2, 0>>, <<2, 1>>, <<2, 2>>, <<2, 3>>, <<3, 0>>, <<3, 1>>, <<3, 2>>, <<3, 3>>>>

\* The carry of the fifth addition ends in word 4: `xor' clears the flag.
AsmFullMul(a, b) ==
  LET Step(sum, k) ==
        LET p == Products[k + 1]
        IN  (sum + a[p[1]] * b[p[2]] * Base ^ (p[1] + p[2])) %
              (IF p = <<1, 0>> THEN Base ^ 5 ELSE Base ^ 8)
  IN  Number(8, Loop(16, 0, Step))

\* %rcx gathers what goes past the last word, but not the carry of the last
\* addition; then the words whose products have not been formed are compared.
AsmOverflowingMul(a, b) ==
  LET used == SelectSeq(Products, LAMBDA p : p[1] + p[2] < 4)
      Step(s, k) ==
        LET p == used[k + 1]
            product == a[p[1]] * b[p[2]] * Base ^ (p[1] + p[2])
            past == IF p = <<3, 0>> THEN product ELSE s.sum + product
        IN  [sum |-> (s.sum + product) % Base ^ 4,
             rcx |-> s.rcx + past \div Base ^ 4]
      last == Loop(10, [sum |-> 0, rcx |-> 0], Step)
      left == IF a[3] # 0 THEN b[1] # 0 \/ b[2] # 0 \/ b[3] # 0
              ELSE (b[3] # 0 /\ (a[1] # 0 \/ a[2] # 0)) \/ (b[2] # 0 /\ a[2] # 0)
  IN  [n |-> Number(4, last.sum), over |-> last.rcx # 0 \/ left]

-----------------------------------------------------------------------------
(* Shifts and division                                                      *)

Shl(a, shift) ==
  LET ws == shift \div Bits
      bs == shift % Bits
  IN  [i \in DOMAIN a |->
         (IF i >= ws THEN (a[i - ws] * 2 ^ bs) % Base ELSE 0) +
         (IF bs > 0 /\ i > ws THEN a[i - 1 - ws] \div 2 ^ (Bits - bs) ELSE 0)]

Shr(a, shift) ==
  LET ws == shift \div Bits
      bs == shift % Bits
  IN  [i \in DOMAIN a |->
         (IF i + ws < Words(a) THEN a[i + ws] \div 2 ^ bs ELSE 0) +
         (IF bs > 0 /\ i + ws + 1 < Words(a)
          THEN (a[i + ws + 1] * 2 ^ (Bits - bs)) % Base ELSE 0)]

\* The bits of a number, without the leading zeros.
WordBits(w) == CHOOSE k \in 0 .. Bits : w < 2 ^ k /\ (k = 0 \/ w >= 2 ^ (k - 1))
BitsOf(a) ==
  IF IsZero(a) THEN 0
  ELSE LET top == CHOOSE i \in DOMAIN a : a[i] # 0 /\ \A j \in DOMAIN a : j > i => a[j] = 0
       IN  Bits * top + WordBits(a[top])

Bit(a, index) == (a[index \div Bits] \div 2 ^ (index % Bits)) % 2 # 0

\* Bitwise long division.
Div(a, b) ==
  LET shift == BitsOf(a) - BitsOf(b)
      Step(s, k) ==
        LET at == shift - k
            fits == ~Less(s.rest, s.by)
        IN  [quotient |-> IF fits THEN [s.quotient EXCEPT ![at \div Bits] =
                                           @ | 2 ^ (at % Bits)]
                          ELSE s.quotient,
             rest |-> IF fits THEN OverflowingSub(s.rest, s.by).n ELSE s.rest,
             by |-> Shr(s.by, 1)]
      zero == Of(Words(a), 0)
  IN  CASE IsZero(b) -> Panic
        [] ~IsZero(b) /\ shift < 0 -> zero
        [] OTHER -> Loop(shift + 1, [quotient |-> zero, rest |-> a, by |-> Shl(b, shift)],
                         Step).quotient

Rem(a, b) ==
  IF IsZero(b) THEN Panic
  ELSE Checked(OverflowingSub(a, Checked(OverflowingMul(Div(a, b), b))))

-----------------------------------------------------------------------------
(* Powers, by squaring.  Where n is odd, pow clears the first bit of the last *)
(* word: the comment in the code means the last bit, which the shift drops.   *)

Times(x, y) == IF x = Panic \/ y = Panic THEN Panic ELSE Checked(OverflowingMul(x, y))

RECURSIVE Powered(_, _, _)
Powered(x, y, n) ==
  LET top == Words(n) - 1 IN
  CASE ~Less(Of(Words(n), 1), n) -> Times(x, y)
    [] Less(Of(Words(n), 1), n) /\ n[0] % 2 = 0 -> Powered(Times(x, x), y, Shr(n, 1))
    [] OTHER -> Powered(Times(x, x), Times(x, y),
                        Shr([n EXCEPT ![top] = @ % (Base \div 2)], 1))

Pow(a, n) == IF IsZero(n) THEN Of(Words(a), 1) ELSE Powered(a, Of(Words(a), 1), n)

RECURSIVE OverflowingPowered(_, _, _, _)
OverflowingPowered(x, y, n, over) ==
  LET Last(odd) == [n |-> odd.n, over |-> over \/ odd.over]
      Even(square) == OverflowingPowered(square.n, y, Shr(n, 1), over \/ square.over)
      Odd(odd, square) ==
        OverflowingPowered(square.n, odd.n, Shr(n, 1), over \/ odd.over \/ square.over)
  IN  CASE ~Less(Of(Words(n), 1), n) -> Last(OverflowingMul(x, y))
        [] Less(Of(Words(n), 1), n) /\ n[0] % 2 = 0 -> Even(OverflowingMul(x, x))
        [] OTHER -> Odd(OverflowingMul(x, y), OverflowingMul(x, x))

OverflowingPow(a, n) ==
  IF IsZero(n) THEN [n |-> Of(Words(a), 1), over |-> FALSE]
  ELSE OverflowingPowered(a, Of(Words(a), 1), n, FALSE)

Exp10(n, k) ==
  LET Step(s, i) == IF s = Panic THEN s ELSE Checked(OverflowingMulU32(s, Ten))
  IN  Loop(k, Of(n, 1), Step)

-----------------------------------------------------------------------------
(* Bytes and digits                                                         *)

Byte(a, index) == (a[index \div 2] \div HalfBase ^ (index % 2)) % HalfBase
LittleEndian(a) == [i \in 1 .. 2 * Words(a) |-> Byte(a, i - 1)]
BigEndian(a) == [i \in 1 .. 2 * Words(a) |-> Byte(a, 2 * Words(a) - i)]

FromBytes(n, bytes) ==
  LET Step(ret, i) == LET rev == Len(bytes) - 1 - i
                      IN  [ret EXCEPT ![rev \div 2] =
                             @ + bytes[i + 1] * HalfBase ^ (rev % 2)]
  IN  IF Len(bytes) > 2 * n THEN Panic ELSE Loop(Len(bytes), Of(n, 0), Step)

\* from_dec_str, of the digits' values.
FromDecStr(n, digits) ==
  LET Step(r, i) ==
        IF r = <<"InvalidLength">> THEN r
        ELSE LET shifted == OverflowingMulU32(r, Ten)
                 added == OverflowingAdd(shifted.n, Of(n, digits[i + 1]))
             IN  IF shifted.over \/ added.over THEN <<"InvalidLength">> ELSE added.n
  IN  IF \E i \in DOMAIN digits : digits[i] >= Ten THEN <<"InvalidCharacter">>
      ELSE Loop(Len(digits), Of(n, 0), Step)

\* Display
RECURSIVE Decimal(_)
Decimal(a) ==
  LET ten == Of(Words(a), Ten) IN
  IF IsZero(a) THEN <<>> ELSE Append(Decimal(Div(a, ten)), LowU32(Rem(a, ten)))
Displayed(a) == IF IsZero(a) THEN <<0>> ELSE Decimal(a)

=============================================================================
