----------------------------- MODULE Algorithms ------------------------------
(***************************************************************************)
(* The algorithms of the repository that share no state with anything: the   *)
(* loops over a HashCache, the RLP stream, and, on a sample as their input,   *)
(* the RLP decoder, the integers and hashes and the Merkle root.  A           *)
(* behaviour runs one of them.                                               *)
(***************************************************************************)
EXTENDS HashCacheLoop, RlpStream

CONSTANTS Word,        \* the words of the numbers of two words
          SmallWord,   \* those of four, for the multiplications in assembly
          Octet,        \* what the byte strings given to the decoder are of
          MaxBytes,    \* their greatest length
          MaxLeaves,   \* the most leaves of a Merkle tree
          MaxHeight    \* how deep they may lie

VARIABLE sample

U == INSTANCE FixedHash WITH HalfBase <- 4, Ten <- 3    \* bytes of 2 bits, words of 4
Asm == INSTANCE FixedHash WITH HalfBase <- 2, Ten <- 1
M == INSTANCE MerkleTree WITH Item <- 1 .. MaxLeaves

Idle ==
  /\ stage = "none" /\ cacheQueue = <<>> /\ cacheHashes = NoHashes
  /\ given = <<>> /\ upTo = 0 /\ round = 0 /\ began = <<>>

\* Data and lists whose length takes two bytes, whole, cut short and with more behind,
\* one of them longer than a usize can say.
LongStrings ==
  {SubSeq(<<first, hi, lo>> \o [i \in 1 .. Base + 3 |-> fill], 1, n) :
     first \in {LongData + 2, LongList + 2}, hi \in {0, 1, Base - 1}, lo \in {0, 1, 2, Base - 1},
     fill \in {1, Single + 1}, n \in 3 .. Base + 6}

Samples ==
  [kind : {"numbers"}, a : [0 .. 1 -> Word], b : [0 .. 1 -> Word]]
  \union [kind : {"assembly"}, a : [0 .. 3 -> SmallWord], b : [0 .. 3 -> SmallWord]]
  \union [kind : {"bytes"}, x : UNION {[1 .. n -> Octet] : n \in 0 .. MaxBytes} \union LongStrings]
  \union [kind : {"leaves"}, n : 0 .. MaxLeaves]

AlgorithmsInit ==
  /\ StreamInit
  /\ \/ LoopInit /\ sample = [kind |-> "loop"]
     \/ Idle /\ sample = [kind |-> "stream"]
     \/ Idle /\ sample \in Samples

AlgorithmsNext ==
  \/ LoopNext /\ UNCHANGED <<streamVars, sample>>
  \/ sample.kind = "stream" /\ StreamNext /\ UNCHANGED <<loopVars, sample>>

AlgorithmsSpec == AlgorithmsInit /\ [][AlgorithmsNext]_<<loopVars, streamVars, sample>>

-----------------------------------------------------------------------------

\* x ^ y, or limit when it is not less.
Power(x, y, limit) ==
  LET f[k \in 0 .. y] == IF k = 0 THEN 1
                         ELSE LET p == f[k - 1] * x IN IF p < limit THEN p ELSE limit
  IN  f[y]

\* x ^ y modulo m.
PowerModulo(x, y, m) ==
  LET f[k \in 0 .. y] == IF k = 0 THEN 1 ELSE (f[k - 1] * x) % m IN f[y]

\* The operations on words are arithmetic modulo two to the width, with a flag
\* that tells when the number does not fit; of the assembly, whose flag misses a
\* carry, only that it is never raised for nothing.  pow is right for exponents
\* that are even or below half the range: it clears the wrong bit of the others.
UintIsArithmetic ==
  /\ sample.kind = "numbers" =>
       LET a == sample.a
           b == sample.b
           x == U!ValueOf(a)
           y == U!ValueOf(b)
           Fits(v) == [n |-> U!Number(2, v), over |-> v \notin 0 .. 255]
           Power256(e) == Power(x, e, 256)
       IN  /\ U!OverflowingAdd(a, b) = Fits(x + y)
           /\ U!OverflowingSub(a, b) = Fits(x - y)
           /\ U!OverflowingMul(a, b) = Fits(x * y)
           /\ U!OverflowingMulU32(a, b[0] % 4) = Fits(x * (y % 4))
           /\ U!FullMul(a, b) = U!Number(4, x * y)
           /\ U!SaturatingSub(a, b) = U!Number(2, IF x < y THEN 0 ELSE x - y)
           /\ U!SaturatingAdd(a, b) = U!Number(2, IF x + y > 255 THEN 255 ELSE x + y)
           /\ U!SaturatingMul(a, b) = U!Number(2, IF x * y > 255 THEN 255 ELSE x * y)
           /\ U!Div(a, b) = IF y = 0 THEN U!Panic ELSE U!Number(2, x \div y)
           /\ U!Rem(a, b) = IF y = 0 THEN U!Panic ELSE U!Number(2, x % y)
           /\ U!Less(a, b) <=> x < y
           /\ y <= 9 => /\ U!Shl(a, y) = U!Number(2, x * 2 ^ y)
                        /\ U!Shr(a, y) = U!Number(2, x \div 2 ^ y)
           /\ y < 128 \/ y % 2 = 0 =>
                U!Pow(a, b) = IF Power256(y) = 256 THEN U!Panic ELSE U!Number(2, Power256(y))
           /\ LET r == U!OverflowingPow(a, b)
              IN  /\ r.over <=> Power256(y) = 256
                  /\ r.n = U!Number(2, PowerModulo(x, y, 256))
           /\ U!OverflowingNeg(a).n = U!Number(2, -1 - x)
           /\ U!AsU32(a) = IF x < 4 THEN x ELSE U!Panic
           /\ U!Exp10(2, b[0]) = IF Power(3, b[0], 256) = 256 THEN U!Panic
                                 ELSE U!Number(2, Power(3, b[0], 256))
  /\ sample.kind = "assembly" =>
       LET product == Asm!ValueOf(sample.a) * Asm!ValueOf(sample.b)
           r == Asm!AsmOverflowingMul(sample.a, sample.b)
       IN  /\ Asm!AsmFullMul(sample.a, sample.b) = Asm!FullMul(sample.a, sample.b)
           /\ r.n = Asm!OverflowingMul(sample.a, sample.b).n
           /\ r.over => product > 255

\* A number is the same as bytes in either order, as a hash, as hex digits and as
\* a decimal string; hashes are ordered as the numbers they stand for; what does
\* not fit is refused, and what is narrower or wider comes back.
ConversionsAgree ==
  sample.kind = "numbers" =>
    LET a == sample.a
        b == sample.b
        h == U!FromUint(a)
        g == U!FromUint(b)
        OfHash(hash) == U!ValueOf(U!ToUint(hash))
        bits == U!BitsOf(a)
    IN  /\ U!ToUint(h) = a /\ U!LittleEndian(a) = Reverse(h)
        /\ U!Before(h, g) <=> U!Less(a, b)
        /\ U!FromDecStr(2, U!Displayed(a)) = a
        /\ U!FromDecStr(1, U!Displayed(a)) = IF a[1] = 0 THEN U!Of(1, a[0]) ELSE <<"InvalidLength">>
        /\ U!FromStr(4, U!ToHex(h)) = h /\ U!Deserialized(4, U!Serialized(h)) = h
        /\ U!Resized(U!Resized(a, 4), 2) = a
        /\ U!Resized(a, 1) = IF a[1] = 0 THEN U!Of(1, a[0]) ELSE U!Panic
        /\ U!LowU64(h) = a[0] /\ U!FromU64(4, a[0]) = U!FromUint(U!Of(2, a[0]))
        /\ U!Narrowed(U!Widened(h, 6), 2, 6) = h
        /\ U!Contains(h, g) <=> U!BitOr(h, g) = h
        /\ OfHash(U!BitXor(h, g)) = OfHash(U!BitOr(h, g)) - OfHash(U!BitAnd(h, g))
        /\ U!FromLiteral(4, U!ToHex(h)) = h
        /\ h[1] < 2 => U!FromLiteral(4, Tail(U!ToHex(h))) = h
        /\ U!FromSlice(2, h) \o Tail(Tail(h)) = U!CopiedTo(U!FromSlice(2, h), h)
        /\ U!ValueOf(a) < 2 ^ bits /\ (bits > 0 => U!Bit(a, bits - 1))

\* Both: the numbers of util/bigint are the integers they stand for.
UintNumbers == UintIsArithmetic /\ ConversionsAgree

\* The bytes behind a header that has the length written out, whatever it is.
LongForm(value) ==
  LET size == BigEndian(Len(value)) IN <<LongData + Len(size)>> \o size \o value

\* How data may be written to be read: as the stream writes it, or in the long form,
\* which is not asked whether a shorter one would have done (b8 01 05 for 05).
Spellings(value) ==
  {EncodedValue(value)} \union (IF value = <<>> THEN {} ELSE {LongForm(value)})

\* The two readers of an item's header agree on which data is there and what it is.
\* Data is accepted in its spellings, of which there are two, and in no other, and so
\* is an integer that has the width; a list's items are its payload cut in pieces.  A
\* value inside an Option is read back, and an Option has the items of its list.
ReadersAgree ==
  sample.kind = "bytes" =>
    LET x == sample.x
        info == ItemInfo(x)
        value == DecodeValue(x)
        items == Items(x)
        indirect == Len(x) > 1 /\ x[1] = Data + 1 /\ x[2] < Single
        Spelt(data) == \E s \in Spellings(data) : IsPrefix(s, x)
    IN  /\ IsDataView(x) => IsOk(value) = (IsOk(info) /\ ~indirect)
        /\ IsOk(value) => /\ value.ok = SubSeq(x, info.ok.header + 1, Total(info.ok))
                          /\ Spelt(value.ok)
        /\ \A s \in Spellings(x) : DecodeValue(s) = Ok(x)
        /\ IsListView(x) /\ IsOk(info) => IsPrefix(FlattenSeq(items), Consumed(x, info.ok.header))
        /\ \A size \in 1 .. 3 :
             LET int == DecodedInt(x, size)
             IN  /\ IsOk(int) => Spelt(BigEndian(int.ok))
                 /\ x # <<>> /\ x[1] # 0 /\ Len(x) <= size =>
                      \A s \in Spellings(x) : DecodedInt(s, size) = Ok(Natural(x))
                 /\ IsOk(int) = IsOk(DecodedUint(x, size))
                 /\ IsOk(int) => IsInt(x) /\ (size = 1 => DecodedBool(x) = Ok(int.ok # 0))
        /\ IsOk(value) => DecodedOption(Encoding(OptionTree(<<[data |-> value.ok]>>))) = Ok(<<value.ok>>)
        /\ \A b \in BOOLEAN : DecodedBool(Encoding(BoolTree(b))) = Ok(b)
        /\ LET option == DecodedOption(x)
           IN  IsOk(option) => Len(option.ok) = Len(items)
        /\ IsOk(DecodedHash(x, 2)) => DecodedHash(x, 2) = DecodeValue(x)

\* The Merkle root commits to every leaf once, in the order of the leaves, and
\* the depths of two leaves differ by at most one.
MerkleKeepsOrder ==
  sample.kind = "leaves" => M!KeepsOrder([k \in 1 .. sample.n |-> k])

=============================================================================
