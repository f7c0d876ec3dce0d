------------------------------- MODULE UintCore -------------------------------
(***************************************************************************)
(* The fixed-size integers of util/bigint: U128, U256 and U512 are arrays of *)
(* 2, 4 and 8 words, the least first, and a word is two halves (split).  A   *)
(* number of n words is a function on 0 .. n - 1.  Here is what the macros    *)
(* compute word by word: sums, differences, products and comparisons.  Panic, *)
(* no number, is a panic.                                                    *)
(***************************************************************************)
EXTENDS Integers, FiniteSets

CONSTANT HalfBase   \* the values of a half: 2^32 in the code

Base == HalfBase * HalfBase
Panic == <<>>

Words(a) == Cardinality(DOMAIN a)

\* for i in 0 .. n { s = step(s, i) }
Loop(n, start, step(_, _)) ==
  LET f[i \in 0 .. n] == IF i = 0 THEN start ELSE step(f[i - 1], i - 1) IN f[n]

Of(n, word) == [i \in 0 .. n - 1 |-> IF i = 0 THEN word ELSE 0]
MaxValue(n) == [i \in 0 .. n - 1 |-> Base - 1]
IsZero(a) == \A i \in DOMAIN a : a[i] = 0

-----------------------------------------------------------------------------
(* The integer a number stands for.                                         *)

Weights(n) == LET w[i \in 0 .. n] == IF i = 0 THEN 1 ELSE Base * w[i - 1] IN w

\* What the first i words amount to, for every i, and the number itself.
Upto(a) ==
  LET n == Words(a)
      v[i \in 0 .. n] == IF i = 0 THEN 0 ELSE v[i - 1] + a[i - 1] * Weights(n)[i - 1]
  IN  v
ValueOf(a) == Upto(a)[Words(a)]

-----------------------------------------------------------------------------
(* What the words are combined to: [n |-> the number, over |-> overflow].    *)

OverflowingAdd(a, b) ==
  LET Step(s, i) == LET r == a[i] + b[i]
                        t == (r % Base) + s.carry
                    IN  [n |-> [s.n EXCEPT ![i] = t % Base],
                         carry |-> r \div Base + t \div Base]
      sum == Loop(Words(a), [n |-> Of(Words(a), 0), carry |-> 0], Step)
  IN  [n |-> sum.n, over |-> sum.carry > 0]

\* A faulty variant, for the mutants: a borrow that the borrow causes is lost.
OverflowingSubOnce(a, b) ==
  LET Step(s, i) == LET r == a[i] - b[i]
                        t == (r % Base) - s.carry
                    IN  [n |-> [s.n EXCEPT ![i] = t % Base], carry |-> IF r < 0 THEN 1 ELSE 0]
      rest == Loop(Words(a), [n |-> Of(Words(a), 0), carry |-> 0], Step)
  IN  [n |-> rest.n, over |-> rest.carry > 0]

OverflowingSub(a, b) ==
  LET Step(s, i) == LET r == a[i] - b[i]
                        t == (r % Base) - s.carry
                    IN  [n |-> [s.n EXCEPT ![i] = t % Base],
                         carry |-> (IF r < 0 THEN 1 ELSE 0) + (IF t < 0 THEN 1 ELSE 0)]
      rest == Loop(Words(a), [n |-> Of(Words(a), 0), carry |-> 0], Step)
  IN  [n |-> rest.n, over |-> rest.carry > 0]

\* The product of a word and a half, with a carry: the word, and its own carry.
MulU32(a, half, carry) ==
  LET upper == half * (a \div HalfBase)
      r == half * (a % HalfBase) + ((upper * HalfBase) % Base)
      t == (r % Base) + carry
  IN  <<t % Base, upper \div HalfBase + r \div Base + t \div Base>>

\* The product of two words with a word to add, of the products with the halves
\* of the second: the lower word, and what is carried, not yet cut to a word.
Wide(low, high) ==
  <<(low[1] % HalfBase) + ((high[1] * HalfBase) % Base),
    high[1] \div HalfBase + ((high[2] * HalfBase) % Base) + low[2]>>
WithHigh(word, half, low) == Wide(low, MulU32(word, half, low[1] \div HalfBase))
MulWords(word, by, add) ==
  WithHigh(word, by \div HalfBase, MulU32(word, by % HalfBase, add))

PutProduct(s, k, p) ==
  LET t == (p[2] % Base) + s.carry
      u == (t % Base) + s.ret[k + 1]
  IN  [ret |-> [s.ret EXCEPT ![k] = p[1], ![k + 1] = u % Base],
       carry |-> IF p[2] \div Base + t \div Base + u \div Base > 0 THEN 1 ELSE 0]

\* Schoolbook multiplication, one word of b after the other.
Row(a, b, ret, i) ==
  LET Step(s, j) == IF a[j] = 0 /\ s.carry = 0 THEN s
                    ELSE PutProduct(s, i + j, MulWords(a[j], b[i], s.ret[i + j]))
  IN  IF b[i] = 0 THEN ret ELSE Loop(Words(a), [ret |-> ret, carry |-> 0], Step).ret
FullMul(a, b) ==
  LET Step(ret, i) == Row(a, b, ret, i)
  IN  Loop(Words(a), Of(2 * Words(a), 0), Step)

CutTo(n, ret) ==
  [n |-> [i \in 0 .. n - 1 |-> ret[i]], over |-> \E i \in n .. 2 * n - 1 : ret[i] # 0]
OverflowingMul(a, b) == CutTo(Words(a), FullMul(a, b))

OverflowingMulU32(a, half) ==
  LET Step(s, i) == LET p == MulU32(a[i], half, s.carry)
                    IN  [n |-> [s.n EXCEPT ![i] = p[1]], carry |-> p[2]]
      r == Loop(Words(a), [n |-> Of(Words(a), 0), carry |-> 0], Step)
  IN  [n |-> r.n, over |-> r.carry > 0]

\* `!', and the negation, which is the same.
Complement(a) == [i \in DOMAIN a |-> Base - 1 - a[i]]
OverflowingNeg(a) == [n |-> Complement(a), over |-> TRUE]

Checked(r) == IF r.over THEN Panic ELSE r.n
SaturatingAdd(a, b) == LET r == OverflowingAdd(a, b)
                       IN  IF r.over THEN MaxValue(Words(a)) ELSE r.n
SaturatingMul(a, b) == LET r == OverflowingMul(a, b)
                       IN  IF r.over THEN MaxValue(Words(a)) ELSE r.n
SaturatingSub(a, b) == LET r == OverflowingSub(a, b)
                       IN  IF r.over THEN Of(Words(a), 0) ELSE r.n

Less(a, b) ==
  \E i \in DOMAIN a : a[i] < b[i] /\ \A j \in DOMAIN a : j > i => a[j] = b[j]

=============================================================================
