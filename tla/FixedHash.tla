------------------------------ MODULE FixedHash ------------------------------
(***************************************************************************)
(* The hashes of util/bigint: a hash of n bytes is a sequence of n, and a    *)
(* byte is half a word (Uint).  H64, H160 and H256 have 8, 20 and 32 bytes;  *)
(* here a word of 2 bytes stands for one of 8.                               *)
(***************************************************************************)
EXTENDS Uint

Zero(n) == [i \in 1 .. n |-> 0]
Least(a, b) == IF a < b THEN a ELSE b

\* clone_from_slice: a shorter source leaves the rest, a longer one is cut.
Overlaid(hash, src) ==
  [i \in DOMAIN hash |-> IF i <= Least(Len(hash), Len(src)) THEN src[i] ELSE hash[i]]
FromSlice(n, src) == Overlaid(Zero(n), src)
CopiedTo(hash, dest) == Overlaid(dest, hash)

BitOr(a, b) == [i \in DOMAIN a |-> a[i] | b[i]]
BitAnd(a, b) == [i \in DOMAIN a |-> a[i] & b[i]]
BitXor(a, b) == [i \in DOMAIN a |-> a[i] ^^ b[i]]
Contains(a, b) == BitAnd(b, a) = b

\* memcmp
Before(a, b) == \E i \in DOMAIN a : a[i] < b[i] /\ \A j \in 1 .. i - 1 : a[j] = b[j]

\* The last bytes, as many as a word has, as a number.
LowU64(hash) ==
  LET n == Len(hash)
      f[i \in 0 .. Least(n, 2)] ==
        IF i = 0 THEN 0 ELSE f[i - 1] | hash[n - i + 1] * HalfBase ^ (i - 1)
  IN  f[Least(n, 2)]
FromU64(n, value) ==
  [i \in 1 .. n |-> IF n - i < 2 THEN (value \div HalfBase ^ (n - i)) % HalfBase ELSE 0]

\* H256 and U256
ToUint(hash) == FromBytes(Len(hash) \div 2, hash)
FromUint(a) == BigEndian(a)

\* H160 is the last bytes of H256, and H256 of H160 is filled from the left;
\* H64 is a part from the middle (20 .. 28 of 32).
Narrowed(hash, from, to) == SubSeq(hash, from + 1, to)
Widened(hash, n) == Zero(n - Len(hash)) \o hash

\* Hex digits: two to a byte, whose base is a square.  A literal may begin with
\* 0x and lack its first digit (From<&str>); what is not n bytes long is refused.
Sixteen == CHOOSE d \in 1 .. HalfBase : d * d = HalfBase
ToHex(hash) ==
  [i \in 1 .. 2 * Len(hash) |->
     IF i % 2 = 1 THEN hash[(i + 1) \div 2] \div Sixteen ELSE hash[i \div 2] % Sixteen]
FromStr(n, digits) ==
  IF Len(digits) # 2 * n THEN Panic
  ELSE [i \in 1 .. n |-> digits[2 * i - 1] * Sixteen + digits[2 * i]]
FromLiteral(n, digits) ==
  FromStr(n, IF Len(digits) % 2 = 1 THEN <<0>> \o digits ELSE digits)

\* The JSON form: 0x and the digits; no digits are zero.
Serialized(hash) == <<"0x">> \o ToHex(hash)
Deserialized(n, text) ==
  LET digits == IF text # <<>> /\ text[1] = "0x" THEN Tail(text) ELSE text
  IN  IF digits = <<>> THEN Zero(n) ELSE FromStr(n, digits)

=============================================================================
