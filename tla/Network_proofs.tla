--------------------------- MODULE Network_proofs ---------------------------
(***************************************************************************)
(* What the network promises: of one connection (FrameStream), and of the  *)
(* transactions that nodes send each other (TxGossip).                     *)
(***************************************************************************)
EXTENDS FrameStream, TxGossip, FiniteSetTheorems, SequenceTheorems, TLAPS

-----------------------------------------------------------------------------
(***************************************************************************)
(* For every list of peers, every room and every way in which TCP cuts     *)
(* what it carries: a server decodes the payloads that were written to it, *)
(* in their order and once, up to the first write that is cut short.       *)
(*                                                                         *)
(* Sound says where in the words that are not decoded each of the frames   *)
(* still expected begins.  It is what a frame's length is for: the words   *)
(* of a payload are never looked at to find the next frame.  A connection  *)
(* that has broken has lost the end of these words, and one with a write   *)
(* cut short has others behind them.                                       *)
(***************************************************************************)

Rest(c) == c.buf \o c.wire

\* e[i] is where, among the words that are not decoded, frame i ends.
Framed(c, e) ==
    LET d == Len(c.decoded)
        n == Len(c.written)
    IN  /\ e \in [d .. n -> Nat]
        /\ e[d] = 0
        /\ \A i, j \in d .. n : i <= j => e[i] <= e[j]
        /\ \A i \in d + 1 .. n :
              /\ e[i] = e[i - 1] + 2 + Len(c.written[i])
              /\ \A j \in 1 .. 2 + Len(c.written[i]) :
                    e[i - 1] + j <= Len(Rest(c)) => Rest(c)[e[i - 1] + j] = Frame(c.written[i])[j]
        /\ c.whole => Len(Rest(c)) <= e[n]
        /\ c.up => e[n] <= Len(Rest(c))

Sound(c) ==
    /\ c \in Connection
    /\ \A i \in DOMAIN c.decoded \intersect DOMAIN c.written : c.decoded[i] = c.written[i]
    /\ c.whole => Len(c.decoded) <= Len(c.written)
    /\ Len(c.decoded) <= Len(c.written) => \E e : Framed(c, e)

LinksSound(links) ==
    /\ links \in [Peer -> Seq(Connection)]
    /\ \A p \in Peer : \A k \in DOMAIN links[p] : Sound(links[p][k])

IInv ==
    /\ TypeOK
    /\ \A p \in Peer : open[p] => link[p] # << >>
    /\ LinksSound(link)

-----------------------------------------------------------------------------
(* Words.                                                                  *)

\* What a connection has not decoded is the server's buffer followed by what is
\* on the wire.
LEMMA RestWords ==
    ASSUME NEW c \in Connection
    PROVE  /\ Rest(c) \in Seq(Word)
           /\ Len(Rest(c)) = Len(c.buf) + Len(c.wire)
           /\ \A i \in 1 .. Len(Rest(c)) :
                 Rest(c)[i] = IF i <= Len(c.buf) THEN c.buf[i] ELSE c.wire[i - Len(c.buf)]
<1>1. c.buf \in Seq(Word) /\ c.wire \in Seq(Word)
    BY DEF Connection
<1> QED BY <1>1, ConcatProperties, ZenonT(40) DEF Rest

\* A frame is the flag, the length of the payload and the payload.
LEMMA FrameWords ==
    ASSUME NEW payload \in Seq(Word)
    PROVE  /\ Frame(payload) \in Seq(Word)
           /\ Len(Frame(payload)) = 2 + Len(payload)
           /\ Frame(payload)[1] = Flag /\ Frame(payload)[2] = Len(payload)
           /\ \A j \in 1 .. Len(payload) : Frame(payload)[j + 2] = payload[j]
<1> DEFINE h == <<Flag, Len(payload)>>
<1>1. h \in Seq(Word) /\ Len(h) = 2 /\ h[1] = Flag /\ h[2] = Len(payload)
    BY StreamAssumption DEF Word
<1> HIDE DEF h
<1>2. Len(payload) \in Nat
    OBVIOUS
<1>3. /\ h \o payload \in Seq(Word)
      /\ Len(h \o payload) = 2 + Len(payload)
      /\ \A i \in 1 .. 2 + Len(payload) :
            (h \o payload)[i] = IF i <= 2 THEN h[i] ELSE payload[i - 2]
  <2>1. /\ h \o payload \in Seq(Word)
        /\ Len(h \o payload) = Len(h) + Len(payload)
        /\ \A i \in 1 .. Len(h) + Len(payload) :
              (h \o payload)[i] = IF i <= Len(h) THEN h[i] ELSE payload[i - Len(h)]
      BY <1>1, ConcatProperties
  <2> QED BY ONLY <1>1, <2>1
<1>4. Frame(payload) = h \o payload
    BY DEF Frame, h
<1>5. \A j \in 1 .. Len(payload) : (h \o payload)[j + 2] = payload[j]
  <2> TAKE j \in 1 .. Len(payload)
  <2>1. j + 2 \in 1 .. 2 + Len(payload) /\ ~ (j + 2 <= 2) /\ (j + 2) - 2 = j
      BY <1>2
  <2> QED BY <2>1, <1>3
<1>6. (h \o payload)[1] = h[1] /\ (h \o payload)[2] = h[2]
    BY <1>2, <1>3
<1> QED BY <1>1, <1>3, <1>4, <1>5, <1>6

\* The first n words of a sequence.
LEMMA FirstWords ==
    ASSUME NEW s \in Seq(Word), NEW n \in 0 .. Len(s)
    PROVE  /\ SubSeq(s, 1, n) \in Seq(Word)
           /\ Len(SubSeq(s, 1, n)) = n
           /\ \A i \in 1 .. n : SubSeq(s, 1, n)[i] = s[i]
<1>1. n \in Int /\ 1 \in Int /\ \A i \in 1 .. n : s[i] \in Word
    OBVIOUS
<1>2. /\ SubSeq(s, 1, n) \in Seq(Word)
      /\ Len(SubSeq(s, 1, n)) = IF 1 <= n THEN n - 1 + 1 ELSE 0
      /\ \A i \in 1 .. n - 1 + 1 : SubSeq(s, 1, n)[i] = s[1 + i - 1]
    BY ONLY <1>1, SubSeqProperties
<1> QED BY <1>2

\* The words from n + 1 on.
LEMMA LastWords ==
    ASSUME NEW s \in Seq(Word), NEW n \in 0 .. Len(s)
    PROVE  /\ SubSeq(s, n + 1, Len(s)) \in Seq(Word)
           /\ Len(SubSeq(s, n + 1, Len(s))) = Len(s) - n
           /\ \A i \in 1 .. Len(s) - n : SubSeq(s, n + 1, Len(s))[i] = s[n + i]
<1> DEFINE l == Len(s)
<1>1. n + 1 \in Int /\ l \in Int /\ \A i \in n + 1 .. l : s[i] \in Word
    OBVIOUS
<1>2. /\ SubSeq(s, n + 1, l) \in Seq(Word)
      /\ Len(SubSeq(s, n + 1, l)) = IF n + 1 <= l THEN l - (n + 1) + 1 ELSE 0
      /\ \A i \in 1 .. l - (n + 1) + 1 : SubSeq(s, n + 1, l)[i] = s[n + 1 + i - 1]
    BY ONLY <1>1, SubSeqProperties
<1>3. l \in Nat /\ n \in 0 .. l
    OBVIOUS
<1> HIDE DEF l
<1>4. /\ Len(SubSeq(s, n + 1, l)) = l - n
      /\ \A i \in 1 .. l - n : SubSeq(s, n + 1, l)[i] = s[n + i]
  <2>1. Len(SubSeq(s, n + 1, l)) = l - n
      BY <1>2, <1>3
  <2>2. ASSUME NEW i \in 1 .. l - n PROVE SubSeq(s, n + 1, l)[i] = s[n + i]
    <3>1. i \in 1 .. l - (n + 1) + 1 /\ n + 1 + i - 1 = n + i
        BY <1>3
    <3> QED BY <1>2, <3>1
  <2> QED BY <2>1, <2>2
<1> QED BY <1>2, <1>4 DEF l

-----------------------------------------------------------------------------
(* What each step makes of a connection.                                   *)

\* The types of a connection's fields.
LEMMA ConnectionFields ==
    ASSUME NEW c \in Connection
    PROVE  /\ c.wire \in Seq(Word) /\ c.buf \in Seq(Word)
           /\ c.decoded \in Seq(Seq(Word)) /\ c.written \in Seq(Seq(Word))
           /\ c.up \in BOOLEAN /\ c.whole \in BOOLEAN /\ c.answers \in Nat
    BY DEF Connection

\* A new connection has nothing on its way and expects nothing.
LEMMA NewSound == Sound(NewConnection)
<1> DEFINE c == NewConnection
           e == [i \in 0 .. 0 |-> 0]
<1>1. c \in Connection
    BY DEF Connection, NewConnection
<1>2. Len(c.decoded) = 0 /\ Len(c.written) = 0 /\ Rest(c) = << >>
    BY DEF NewConnection, Rest
<1>3. Framed(c, e)
    BY <1>2 DEF Framed
<1>4. \E f : Framed(c, f)
    BY <1>3
<1> QED BY <1>1, <1>2, <1>4 DEF Sound, NewConnection

\* Bytes behind those that are there change nothing of the frames expected.
LEMMA FramedExtends ==
    ASSUME NEW c \in Connection, NEW c1 \in Connection, NEW e,
           Framed(c, e), c.up, ~ c1.whole,
           c1.decoded = c.decoded, c1.written = c.written,
           Len(c.decoded) <= Len(c.written),
           Len(Rest(c1)) >= Len(Rest(c)),
           \A i \in 1 .. Len(Rest(c)) : Rest(c1)[i] = Rest(c)[i]
    PROVE  Framed(c1, e)
<1> DEFINE d == Len(c.decoded)
           n == Len(c.written)
           l == Len(Rest(c))
           l1 == Len(Rest(c1))
<1>1. d \in Nat /\ n \in Nat /\ l \in Nat /\ l1 \in Nat /\ d <= n /\ l <= l1
    BY ConnectionFields, RestWords
<1>2. /\ e \in [d .. n -> Nat] /\ e[d] = 0
      /\ \A i, j \in d .. n : i <= j => e[i] <= e[j]
      /\ e[n] <= l
    BY DEF Framed
<1>3. ASSUME NEW i \in d + 1 .. n
      PROVE  /\ e[i] = e[i - 1] + 2 + Len(c.written[i])
             /\ \A j \in 1 .. 2 + Len(c.written[i]) :
                   e[i - 1] + j <= l1 => Rest(c1)[e[i - 1] + j] = Frame(c.written[i])[j]
  <2>1. /\ e[i] = e[i - 1] + 2 + Len(c.written[i])
        /\ \A j \in 1 .. 2 + Len(c.written[i]) :
              e[i - 1] + j <= l => Rest(c)[e[i - 1] + j] = Frame(c.written[i])[j]
      BY DEF Framed
  <2>2. i \in d .. n /\ i - 1 \in d .. n /\ n \in d .. n
      BY <1>1
  <2>3. e[i] <= l /\ e[i] \in Nat /\ e[i - 1] \in Nat
    <3>1. e[i] \in Nat /\ e[i - 1] \in Nat /\ e[n] \in Nat
        BY ONLY <1>2, <2>2
    <3>2. e[i] <= e[n]
        BY <1>1, <1>2, <2>2, SMTT(20)
    <3> QED BY <1>1, <1>2, <3>1, <3>2
  <2>4. Len(c.written[i]) \in Nat
    <3>1. c.written \in Seq(Seq(Word)) /\ i \in 1 .. n
        BY <1>1, ConnectionFields
    <3> QED BY <3>1
  <2>5. ASSUME NEW j \in 1 .. 2 + Len(c.written[i])
        PROVE  Rest(c1)[e[i - 1] + j] = Frame(c.written[i])[j]
    <3>1. e[i - 1] + j \in 1 .. l
      <4> DEFINE a == e[i - 1]
                 w == Len(c.written[i])
      <4>1. a \in Nat /\ w \in Nat /\ a + 2 + w <= l /\ j \in 1 .. 2 + w /\ l \in Nat
          BY <1>1, <2>1, <2>3, <2>4
      <4> HIDE DEF a, w, l
      <4>2. a + j \in 1 .. l
          BY ONLY <4>1
      <4> QED BY <4>2 DEF a
    <3> QED BY <2>1, <3>1
  <2> QED BY <2>1, <2>5
<1> QED BY <1>1, <1>2, <1>3 DEF Framed

\* Words written come behind those that are there.
LEMMA WrittenBehind ==
    ASSUME NEW c \in Connection, NEW c1 \in Connection, NEW words \in Seq(Word),
           c1.buf = c.buf, c1.wire = c.wire \o words
    PROVE  /\ Len(Rest(c1)) = Len(Rest(c)) + Len(words)
           /\ \A i \in 1 .. Len(Rest(c)) : Rest(c1)[i] = Rest(c)[i]
           /\ \A j \in 1 .. Len(words) : Rest(c1)[Len(Rest(c)) + j] = words[j]
<1> DEFINE b == Len(c.buf)
           w == Len(c.wire)
           x == Len(words)
<1>1. b \in Nat /\ w \in Nat /\ x \in Nat
    BY ConnectionFields
<1>2. /\ Len(c1.wire) = w + x
      /\ \A i \in 1 .. w + x : c1.wire[i] = IF i <= w THEN c.wire[i] ELSE words[i - w]
    BY ConnectionFields, ConcatProperties
<1>3. /\ Len(Rest(c)) = b + w
      /\ \A i \in 1 .. b + w : Rest(c)[i] = IF i <= b THEN c.buf[i] ELSE c.wire[i - b]
    BY RestWords
<1>4. /\ Len(Rest(c1)) = b + (w + x)
      /\ \A i \in 1 .. b + (w + x) :
            Rest(c1)[i] = IF i <= b THEN c.buf[i] ELSE c1.wire[i - b]
    BY <1>2, RestWords
<1> HIDE DEF b, w, x
<1>5. ASSUME NEW i \in 1 .. b + w PROVE Rest(c1)[i] = Rest(c)[i]
  <2>1. i \in 1 .. b + (w + x) /\ (~ (i <= b) => i - b \in 1 .. w + x /\ i - b <= w)
      BY <1>1
  <2> QED BY <1>2, <1>3, <1>4, <2>1
<1>6. ASSUME NEW j \in 1 .. x PROVE Rest(c1)[b + w + j] = words[j]
  <2>1. /\ b + w + j \in 1 .. b + (w + x) /\ ~ (b + w + j <= b)
        /\ (b + w + j) - b = w + j /\ w + j \in 1 .. w + x
        /\ ~ (w + j <= w) /\ (w + j) - w = j
      BY <1>1
  <2> QED BY <1>2, <1>4, <2>1
<1>7. b + (w + x) = (b + w) + x
    BY <1>1
<1> QED BY <1>3, <1>4, <1>5, <1>6, <1>7 DEF x

\* A write that is cut short puts a part of a frame on the wire, after which no
\* whole frame is expected of the connection.
LEMMA CutShortSound ==
    ASSUME NEW c, Sound(c), c.up, NEW part \in Seq(Word)
    PROVE  Sound(CutShort(c, part))
<1> DEFINE c1 == CutShort(c, part)
<1>1. c \in Connection
    BY DEF Sound
<1>2. /\ c1.wire = c.wire \o part /\ c1.buf = c.buf /\ ~ c1.whole
      /\ c1.decoded = c.decoded /\ c1.written = c.written
    BY <1>1 DEF CutShort, Connection
<1>3. c1 \in Connection
  <2>1. c.wire \o part \in Seq(Word)
      BY <1>1, ConnectionFields, ConcatProperties
  <2> QED BY <1>1, <2>1 DEF CutShort, Connection
<1> HIDE DEF c1
<1>4. /\ Len(Rest(c1)) >= Len(Rest(c))
      /\ \A i \in 1 .. Len(Rest(c)) : Rest(c1)[i] = Rest(c)[i]
  <2>1. /\ Len(Rest(c1)) = Len(Rest(c)) + Len(part)
        /\ \A i \in 1 .. Len(Rest(c)) : Rest(c1)[i] = Rest(c)[i]
      BY <1>1, <1>2, <1>3, WrittenBehind
  <2>2. Len(Rest(c)) \in Nat /\ Len(part) \in Nat
      BY <1>1, RestWords, LenProperties
  <2> QED BY <2>1, <2>2
<1>5. ASSUME Len(c1.decoded) <= Len(c1.written)
      PROVE  \E e : Framed(c1, e)
  <2>1. PICK e : Framed(c, e)
      BY <1>2, <1>5 DEF Sound
  <2>2. Framed(c1, e)
      BY <1>1, <1>2, <1>3, <1>4, <1>5, <2>1, FramedExtends
  <2> QED BY <2>2
<1>6. Sound(c1)
    BY <1>2, <1>3, <1>5 DEF Sound
<1> QED BY <1>6 DEF c1

\* A frame more is written, behind the words of those expected.
LEMMA FramedGrows ==
    ASSUME NEW c \in Connection, NEW c1 \in Connection, NEW e, NEW payload \in Seq(Word),
           Framed(c, e), c.up, c.whole,
           c1.decoded = c.decoded, c1.written = Append(c.written, payload),
           Len(c.decoded) <= Len(c.written),
           Len(Rest(c1)) = Len(Rest(c)) + 2 + Len(payload),
           \A i \in 1 .. Len(Rest(c)) : Rest(c1)[i] = Rest(c)[i],
           \A j \in 1 .. 2 + Len(payload) :
              Rest(c1)[Len(Rest(c)) + j] = Frame(payload)[j]
    PROVE  \E f : Framed(c1, f)
<1> DEFINE d == Len(c.decoded)
           n == Len(c.written)
           l == Len(Rest(c))
           w == Len(payload)
           f == [i \in d .. n + 1 |-> IF i <= n THEN e[i] ELSE l + 2 + w]
<1>1. d \in Nat /\ n \in Nat /\ l \in Nat /\ w \in Nat /\ d <= n
    BY ConnectionFields, RestWords
<1>2. /\ e \in [d .. n -> Nat] /\ e[d] = 0
      /\ \A i, j \in d .. n : i <= j => e[i] <= e[j]
      /\ e[n] = l
  <2>1. /\ e \in [d .. n -> Nat] /\ e[d] = 0
        /\ \A i, j \in d .. n : i <= j => e[i] <= e[j]
        /\ e[n] <= l /\ l <= e[n]
      BY DEF Framed
  <2>2. e[n] \in Nat
      BY <1>1, <2>1, SMTT(20)
  <2> QED BY <1>1, <2>1, <2>2
<1>3. /\ Len(c1.written) = n + 1 /\ c1.written[n + 1] = payload
      /\ \A i \in 1 .. n : c1.written[i] = c.written[i]
    BY ConnectionFields, AppendProperties
<1>4. /\ \A i \in d .. n : f[i] = e[i] /\ e[i] \in Nat /\ e[i] <= l
      /\ f[n + 1] = l + 2 + w
  <2>1. ASSUME NEW i \in d .. n PROVE f[i] = e[i] /\ e[i] \in Nat /\ e[i] <= l
    <3>1. f[i] = e[i] /\ e[i] \in Nat
        BY <1>1, <1>2
    <3>2. n \in d .. n /\ i <= n
        BY <1>1
    <3>3. e[i] <= e[n]
        BY <1>2, <3>2
    <3> QED BY <1>2, <3>1, <3>3
  <2>2. f[n + 1] = l + 2 + w
      BY <1>1
  <2> QED BY <2>1, <2>2
<1>5. f \in [d .. n + 1 -> Nat]
    BY <1>1, <1>2
<1>6. \A i \in d + 1 .. n :
         /\ e[i] = e[i - 1] + 2 + Len(c.written[i])
         /\ \A j \in 1 .. 2 + Len(c.written[i]) :
               e[i - 1] + j <= l => Rest(c)[e[i - 1] + j] = Frame(c.written[i])[j]
    BY DEF Framed
<1> HIDE DEF f, l, w
<1>7. \A i, j \in d .. n + 1 : i <= j => f[i] <= f[j]
  <2> SUFFICES ASSUME NEW i \in d .. n + 1, NEW j \in d .. n + 1, i <= j PROVE f[i] <= f[j]
      OBVIOUS
  <2>1. CASE j \in d .. n
    <3>1. i \in d .. n
        BY <1>1, <2>1
    <3> QED BY <1>2, <1>4, <2>1, <3>1
  <2>2. CASE j = n + 1 /\ i \in d .. n
      BY <1>1, <1>4, <2>2, SMTT(20)
  <2>3. CASE j = n + 1 /\ i = n + 1
      BY <1>1, <1>4, <2>3
  <2> QED BY <1>1, <2>1, <2>2, <2>3
<1>8. ASSUME NEW i \in d + 1 .. n + 1
      PROVE  /\ f[i] = f[i - 1] + 2 + Len(c1.written[i])
             /\ \A j \in 1 .. 2 + Len(c1.written[i]) :
                   f[i - 1] + j <= Len(Rest(c1)) =>
                      Rest(c1)[f[i - 1] + j] = Frame(c1.written[i])[j]
  <2>1. CASE i = n + 1
    <3>1. i - 1 = n /\ n \in d .. n
        BY <1>1, <2>1
    <3>2. f[i - 1] = l /\ f[i] = l + 2 + w /\ c1.written[i] = payload
        BY <1>2, <1>3, <1>4, <2>1, <3>1
    <3> QED BY <3>2 DEF l, w
  <2>2. CASE i \in d + 1 .. n
    <3>1. i \in d .. n /\ i - 1 \in d .. n /\ i \in 1 .. n
        BY <1>1, <2>2
    <3>2. /\ f[i] = e[i] /\ f[i - 1] = e[i - 1] /\ c1.written[i] = c.written[i]
          /\ e[i] <= l /\ e[i - 1] \in Nat /\ Len(c.written[i]) \in Nat
      <4>1. Len(c.written[i]) \in Nat
        <5>1. c.written \in Seq(Seq(Word)) /\ i \in DOMAIN c.written
            BY <3>1, ConnectionFields
        <5> QED BY <5>1
      <4> QED BY <1>3, <1>4, <3>1, <4>1
    <3>3. /\ e[i] = e[i - 1] + 2 + Len(c.written[i])
          /\ \A j \in 1 .. 2 + Len(c.written[i]) :
                e[i - 1] + j <= l => Rest(c)[e[i - 1] + j] = Frame(c.written[i])[j]
        BY <1>6, <2>2
    <3>4. ASSUME NEW j \in 1 .. 2 + Len(c.written[i])
          PROVE  Rest(c1)[e[i - 1] + j] = Frame(c.written[i])[j]
      <4> DEFINE a == e[i - 1]
                 v == Len(c.written[i])
      <4>1. a \in Nat /\ v \in Nat /\ a + 2 + v <= l /\ j \in 1 .. 2 + v /\ l \in Nat
          BY <1>1, <3>2, <3>3
      <4> HIDE DEF a, v
      <4>2. a + j \in 1 .. l
          BY ONLY <4>1
      <4>3. e[i - 1] + j \in 1 .. l
          BY <4>2 DEF a
      <4>4. Rest(c1)[e[i - 1] + j] = Rest(c)[e[i - 1] + j]
          BY <4>3 DEF l
      <4> QED BY <3>3, <3>4, <4>3, <4>4
    <3> QED BY <3>2, <3>3, <3>4, SMTT(20)
  <2> QED BY <1>1, <2>1, <2>2, SMTT(20)
<1>9. f[d] = 0
    BY <1>1, <1>2, <1>4, SMTT(20)
<1>10. Len(Rest(c1)) = f[n + 1]
    BY <1>4 DEF l, w
<1>11. l + 2 + w \in Nat
    BY <1>1
<1>12. Framed(c1, f)
  <2>1. Len(c1.decoded) = d
      OBVIOUS
  <2>2. (c1.whole => Len(Rest(c1)) <= f[n + 1]) /\ (c1.up => f[n + 1] <= Len(Rest(c1)))
      BY <1>4, <1>10, <1>11
  <2> QED BY <1>3, <1>5, <1>7, <1>8, <1>9, <2>1, <2>2, SMTT(20) DEF Framed
<1> QED BY <1>12

\* A whole write puts one more frame behind those that are expected.
LEMMA SentSound ==
    ASSUME NEW c, Sound(c), c.up, NEW payload \in Seq(Word)
    PROVE  Sound(Sent(c, payload))
<1> DEFINE c1 == Sent(c, payload)
<1>1. c \in Connection
    BY DEF Sound
<1>2. /\ c1.wire = c.wire \o Frame(payload) /\ c1.buf = c.buf
      /\ c1.whole = c.whole /\ c1.up = c.up /\ c1.decoded = c.decoded
      /\ c1.written = IF c.whole THEN Append(c.written, payload) ELSE c.written
    BY <1>1 DEF Sent, Connection
<1>3. c1 \in Connection
  <2>1. c.wire \o Frame(payload) \in Seq(Word)
      BY <1>1, ConnectionFields, FrameWords, ConcatProperties
  <2>2. Append(c.written, payload) \in Seq(Seq(Word))
      BY <1>1, ConnectionFields
  <2> QED BY <1>1, <2>1, <2>2 DEF Sent, Connection
<1> HIDE DEF c1
<1>4. /\ Len(Rest(c1)) = Len(Rest(c)) + (2 + Len(payload))
      /\ \A i \in 1 .. Len(Rest(c)) : Rest(c1)[i] = Rest(c)[i]
      /\ \A j \in 1 .. 2 + Len(payload) : Rest(c1)[Len(Rest(c)) + j] = Frame(payload)[j]
  <2> DEFINE words == Frame(payload)
  <2>1. words \in Seq(Word) /\ Len(words) = 2 + Len(payload)
      BY FrameWords
  <2>2. c1.buf = c.buf /\ c1.wire = c.wire \o words
      BY <1>2
  <2> HIDE DEF words
  <2>3. /\ Len(Rest(c1)) = Len(Rest(c)) + Len(words)
        /\ \A i \in 1 .. Len(Rest(c)) : Rest(c1)[i] = Rest(c)[i]
        /\ \A j \in 1 .. Len(words) : Rest(c1)[Len(Rest(c)) + j] = words[j]
      BY <1>1, <1>3, <2>1, <2>2, WrittenBehind, ZenonT(40)
  <2> QED BY <2>1, <2>3 DEF words
<1>5. Len(payload) \in Nat /\ Len(Rest(c)) \in Nat
    BY <1>1, RestWords
<1>6. CASE ~ c.whole
  <2>1. ASSUME Len(c1.decoded) <= Len(c1.written)
        PROVE  \E e : Framed(c1, e)
    <3>1. PICK e : Framed(c, e)
        BY <1>2, <1>6, <2>1 DEF Sound
    <3>2. Len(Rest(c1)) >= Len(Rest(c))
        BY <1>4, <1>5
    <3>3. Framed(c1, e)
        BY <1>1, <1>2, <1>3, <1>4, <1>6, <2>1, <3>1, <3>2, FramedExtends
    <3> QED BY <3>3
  <2>2. Sound(c1)
      BY <1>2, <1>3, <1>6, <2>1 DEF Sound
  <2> QED BY <2>2 DEF c1
<1>7. CASE c.whole
  <2>1. /\ c1.written = Append(c.written, payload)
        /\ Len(c.decoded) <= Len(c.written)
      BY <1>2, <1>7 DEF Sound
  <2>2. PICK e : Framed(c, e)
      BY <2>1 DEF Sound
  <2>3. Len(Rest(c1)) = Len(Rest(c)) + 2 + Len(payload)
      BY <1>4, <1>5
  <2>4. \E f : Framed(c1, f)
      BY <1>1, <1>2, <1>3, <1>4, <1>7, <2>1, <2>2, <2>3, FramedGrows
  <2>5. /\ c.decoded \in Seq(Seq(Word)) /\ c.written \in Seq(Seq(Word))
        /\ Len(c1.written) = Len(c.written) + 1
        /\ \A i \in 1 .. Len(c.written) : c1.written[i] = c.written[i]
      BY <1>1, <2>1, ConnectionFields, AppendProperties
  <2>6. Len(c1.decoded) <= Len(c1.written)
      BY <1>2, <2>1, <2>5
  <2>7. \A i \in DOMAIN c1.decoded \intersect DOMAIN c1.written : c1.decoded[i] = c1.written[i]
    <3> TAKE i \in DOMAIN c1.decoded \intersect DOMAIN c1.written
    <3>1. i \in 1 .. Len(c.decoded)
        BY <1>2, <2>5
    <3>2. i \in DOMAIN c.decoded \intersect DOMAIN c.written /\ i \in 1 .. Len(c.written)
        BY <2>1, <2>5, <3>1, SMTT(20)
    <3>3. c.decoded[i] = c.written[i]
        BY <3>2 DEF Sound
    <3> QED BY <1>2, <2>5, <3>2, <3>3
  <2>8. Sound(c1)
      BY <1>3, <2>4, <2>6, <2>7 DEF Sound
  <2> QED BY <2>8 DEF c1
<1> QED BY <1>6, <1>7

\* A connection whose expected words are the first of another's.
LEMMA FramedShrinks ==
    ASSUME NEW c \in Connection, NEW c1 \in Connection, NEW e,
           Framed(c, e), c1.whole = c.whole,
           c1.up => c.up /\ Len(Rest(c1)) = Len(Rest(c)),
           c1.decoded = c.decoded, c1.written = c.written,
           Len(c.decoded) <= Len(c.written),
           Len(Rest(c1)) <= Len(Rest(c)),
           \A i \in 1 .. Len(Rest(c1)) : Rest(c1)[i] = Rest(c)[i]
    PROVE  Framed(c1, e)
<1> DEFINE d == Len(c.decoded)
           n == Len(c.written)
           l == Len(Rest(c))
           l1 == Len(Rest(c1))
<1>1. d \in Nat /\ n \in Nat /\ l \in Nat /\ l1 \in Nat /\ d <= n /\ l1 <= l
    BY ConnectionFields, RestWords
<1>2. /\ e \in [d .. n -> Nat] /\ e[d] = 0
      /\ \A i, j \in d .. n : i <= j => e[i] <= e[j]
      /\ c.whole => l <= e[n]
      /\ c.up => e[n] <= l
    BY DEF Framed
<1>3. e[n] \in Nat
    BY <1>1, <1>2
<1>4. (c1.whole => l1 <= e[n]) /\ (c1.up => e[n] <= l1)
    BY <1>1, <1>2, <1>3
<1>5. ASSUME NEW i \in d + 1 .. n
      PROVE  /\ e[i] = e[i - 1] + 2 + Len(c.written[i])
             /\ \A j \in 1 .. 2 + Len(c.written[i]) :
                   e[i - 1] + j <= l1 => Rest(c1)[e[i - 1] + j] = Frame(c.written[i])[j]
  <2>1. /\ e[i] = e[i - 1] + 2 + Len(c.written[i])
        /\ \A j \in 1 .. 2 + Len(c.written[i]) :
              e[i - 1] + j <= l => Rest(c)[e[i - 1] + j] = Frame(c.written[i])[j]
      BY DEF Framed
  <2>2. i - 1 \in d .. n
      BY <1>1
  <2>3. e[i - 1] \in Nat
      BY <1>2, <2>2
  <2>4. ASSUME NEW j \in 1 .. 2 + Len(c.written[i]), e[i - 1] + j <= l1
        PROVE  Rest(c1)[e[i - 1] + j] = Frame(c.written[i])[j]
    <3>1. j \in Int /\ 1 <= j
        OBVIOUS
    <3>2. e[i - 1] + j \in 1 .. l1 /\ e[i - 1] + j <= l
      <4> DEFINE a == e[i - 1]
      <4>1. a \in Nat /\ a + j <= l1 /\ j \in Int /\ 1 <= j
          BY <2>3, <2>4, <3>1
      <4> HIDE DEF a, l, l1
      <4>2. a + j \in 1 .. l1 /\ a + j <= l
          BY <1>1, <4>1
      <4> QED BY <4>2 DEF a
    <3> QED BY <2>1, <3>2
  <2> QED BY <2>1, <2>4
<1> QED BY <1>2, <1>4, <1>5 DEF Framed

\* A connection that breaks loses the end of what is on the wire, and no frame
\* before it.
LEMMA BrokenSound ==
    ASSUME NEW c, Sound(c), NEW n \in 0 .. Len(c.wire)
    PROVE  Sound(Broken(c, n))
<1> DEFINE c1 == Broken(c, n)
<1>1. c \in Connection /\ c.wire \in Seq(Word) /\ c.buf \in Seq(Word)
    BY ConnectionFields DEF Sound
<1>2. /\ c1.wire = SubSeq(c.wire, 1, n) /\ c1.buf = c.buf /\ ~ c1.up
      /\ c1.whole = c.whole /\ c1.decoded = c.decoded /\ c1.written = c.written
    BY <1>1 DEF Broken, Connection
<1>3. /\ SubSeq(c.wire, 1, n) \in Seq(Word)
      /\ Len(SubSeq(c.wire, 1, n)) = n
      /\ \A i \in 1 .. n : SubSeq(c.wire, 1, n)[i] = c.wire[i]
    BY <1>1, FirstWords
<1>4. c1 \in Connection
    BY <1>1, <1>3 DEF Broken, Connection
<1> HIDE DEF c1
<1>5. /\ Len(Rest(c1)) <= Len(Rest(c))
      /\ \A i \in 1 .. Len(Rest(c1)) : Rest(c1)[i] = Rest(c)[i]
  <2> DEFINE b == Len(c.buf)
             w == Len(c.wire)
  <2>1. b \in Nat /\ w \in Nat /\ n \in Nat /\ n <= w
      BY <1>1
  <2>2. /\ Len(Rest(c)) = b + w
        /\ \A i \in 1 .. b + w : Rest(c)[i] = IF i <= b THEN c.buf[i] ELSE c.wire[i - b]
      BY <1>1, RestWords
  <2>3. /\ Len(Rest(c1)) = b + n
        /\ \A i \in 1 .. b + n : Rest(c1)[i] = IF i <= b THEN c.buf[i] ELSE c1.wire[i - b]
      BY <1>2, <1>3, <1>4, RestWords
  <2> HIDE DEF b, w
  <2>4. ASSUME NEW i \in 1 .. b + n PROVE Rest(c1)[i] = Rest(c)[i]
    <3>1. i \in 1 .. b + w /\ (~ (i <= b) => i - b \in 1 .. n)
        BY <2>1
    <3> QED BY <1>2, <1>3, <2>2, <2>3, <3>1
  <2> QED BY <2>1, <2>2, <2>3, <2>4
<1>6. ASSUME Len(c1.decoded) <= Len(c1.written)
      PROVE  \E e : Framed(c1, e)
  <2>1. PICK e : Framed(c, e)
      BY <1>2, <1>6 DEF Sound
  <2>2. Framed(c1, e)
      BY <1>1, <1>2, <1>4, <1>5, <1>6, <2>1, FramedShrinks
  <2> QED BY <2>2
<1>7. Sound(c1)
    BY <1>2, <1>4, <1>6 DEF Sound
<1> QED BY <1>7 DEF c1

\* The server's read moves words from the wire to its buffer and changes
\* nothing of their sequence.
LEMMA FilledSound ==
    ASSUME NEW c, Sound(c), NEW n \in 1 .. Len(c.wire)
    PROVE  Sound(Filled(c, n))
<1> DEFINE c1 == Filled(c, n)
           taken == SubSeq(c.wire, 1, n)
           left == SubSeq(c.wire, n + 1, Len(c.wire))
<1>1. c \in Connection /\ c.wire \in Seq(Word) /\ c.buf \in Seq(Word) /\ n \in 0 .. Len(c.wire)
    BY ConnectionFields DEF Sound
<1>2. /\ c1.wire = left /\ c1.buf = c.buf \o taken /\ c1.up = c.up
      /\ c1.whole = c.whole /\ c1.decoded = c.decoded /\ c1.written = c.written
    BY <1>1 DEF Filled, Connection
<1>3. /\ taken \in Seq(Word) /\ Len(taken) = n
      /\ \A i \in 1 .. n : taken[i] = c.wire[i]
    BY <1>1, FirstWords
<1>4. /\ left \in Seq(Word) /\ Len(left) = Len(c.wire) - n
      /\ \A i \in 1 .. Len(c.wire) - n : left[i] = c.wire[n + i]
    BY <1>1, LastWords
<1>5. c1 \in Connection
  <2>1. c.buf \o taken \in Seq(Word)
      BY <1>1, <1>3, ConcatProperties
  <2> QED BY <1>1, <1>4, <2>1 DEF Filled, Connection
<1> HIDE DEF c1, taken, left
<1>6. /\ Len(Rest(c1)) = Len(Rest(c))
      /\ \A i \in 1 .. Len(Rest(c1)) : Rest(c1)[i] = Rest(c)[i]
  <2> DEFINE b == Len(c.buf)
             w == Len(c.wire)
  <2>1. b \in Nat /\ w \in Nat /\ n \in Nat /\ n <= w
      BY <1>1
  <2>2. /\ Len(Rest(c)) = b + w
        /\ \A i \in 1 .. b + w : Rest(c)[i] = IF i <= b THEN c.buf[i] ELSE c.wire[i - b]
      BY <1>1, RestWords
  <2>3. /\ Len(c1.buf) = b + n
        /\ \A i \in 1 .. b + n : c1.buf[i] = IF i <= b THEN c.buf[i] ELSE taken[i - b]
    <3>1. /\ Len(c.buf \o taken) = b + Len(taken)
          /\ \A i \in 1 .. b + Len(taken) :
                (c.buf \o taken)[i] = IF i <= b THEN c.buf[i] ELSE taken[i - b]
        BY <1>1, <1>3, ConcatProperties
    <3> QED BY <1>2, <1>3, <3>1
  <2>4. /\ Len(Rest(c1)) = Len(c1.buf) + Len(c1.wire)
        /\ \A i \in 1 .. Len(Rest(c1)) :
              Rest(c1)[i] = IF i <= Len(c1.buf) THEN c1.buf[i] ELSE c1.wire[i - Len(c1.buf)]
      BY <1>5, RestWords
  <2>5. Len(c1.wire) = w - n /\ \A i \in 1 .. w - n : c1.wire[i] = c.wire[n + i]
      BY <1>2, <1>4
  <2> HIDE DEF b, w
  <2>6. Len(Rest(c1)) = b + w
      BY <2>1, <2>3, <2>4, <2>5
  <2>7. ASSUME NEW i \in 1 .. b + w PROVE Rest(c1)[i] = Rest(c)[i]
    <3>1. CASE i <= b
      <4>1. i \in 1 .. b + n /\ i <= b + n
          BY <2>1, <3>1
      <4> QED BY <2>2, <2>3, <2>4, <2>6, <3>1, <4>1
    <3>2. CASE ~ (i <= b) /\ i <= b + n
      <4>1. i \in 1 .. b + n /\ i - b \in 1 .. n
          BY <2>1, <3>2
      <4> QED BY <1>3, <2>2, <2>3, <2>4, <2>6, <3>2, <4>1
    <3>3. CASE ~ (i <= b + n)
      <4>1. ~ (i <= b) /\ i - (b + n) \in 1 .. w - n /\ n + (i - (b + n)) = i - b
          BY <2>1, <3>3
      <4>2. Rest(c1)[i] = c1.wire[i - (b + n)]
          BY <2>3, <2>4, <2>6, <3>3
      <4>3. Rest(c)[i] = c.wire[i - b]
          BY <2>2, <4>1
      <4> QED BY <2>5, <4>1, <4>2, <4>3
    <3> QED BY <3>1, <3>2, <3>3
  <2> QED BY <2>2, <2>6, <2>7
<1>7. ASSUME Len(c1.decoded) <= Len(c1.written)
      PROVE  \E e : Framed(c1, e)
  <2>1. PICK e : Framed(c, e)
      BY <1>2, <1>7 DEF Sound
  <2>2. Len(Rest(c1)) <= Len(Rest(c))
      BY <1>1, <1>6, RestWords
  <2>3. Framed(c1, e)
      BY <1>1, <1>2, <1>5, <1>6, <1>7, <2>1, <2>2, FramedShrinks
  <2> QED BY <2>3
<1>8. Sound(c1)
    BY <1>2, <1>5, <1>7 DEF Sound
<1> QED BY <1>8 DEF c1

\* The words a frame is decoded from.
LEMMA DecodedWords ==
    ASSUME NEW c \in Connection, HasFrame(c.buf)
    PROVE  LET m == c.buf[2]
               c1 == Decoded(c)
           IN  /\ c1 \in Connection /\ m \in Nat
               /\ c1.up = c.up /\ c1.whole = c.whole /\ c1.written = c.written
               /\ c1.decoded = Append(c.decoded, Payload(c.buf))
               /\ Payload(c.buf) \in Seq(Word) /\ Len(Payload(c.buf)) = m
               /\ \A j \in 1 .. m : Payload(c.buf)[j] = Rest(c)[2 + j]
               /\ m = Rest(c)[2]
               /\ m + 2 <= Len(Rest(c))
               /\ Len(Rest(c1)) = Len(Rest(c)) - (m + 2)
               /\ \A i \in 1 .. Len(Rest(c1)) : Rest(c1)[i] = Rest(c)[m + 2 + i]
<1> DEFINE m == c.buf[2]
           b == Len(c.buf)
           w == Len(c.wire)
           c1 == Decoded(c)
           pay == Payload(c.buf)
           left == AfterFrame(c.buf)
<1>1. c.wire \in Seq(Word) /\ c.buf \in Seq(Word) /\ c.decoded \in Seq(Seq(Word)) /\ c.answers \in Nat
    BY ConnectionFields
<1>2. m \in Nat /\ b \in Nat /\ w \in Nat /\ m + 2 <= b
  <2>1. b >= 2 /\ m + 2 <= b
      BY DEF HasFrame
  <2>2. b \in Nat /\ w \in Nat
      BY <1>1
  <2>3. m \in Word
      BY <1>1, <2>1, <2>2
  <2> QED BY <2>1, <2>2, <2>3 DEF Word
<1>3. pay \in Seq(Word) /\ Len(pay) = m /\ \A j \in 1 .. m : pay[j] = c.buf[2 + j]
  <2> DEFINE q == m + 2
  <2>1. 3 \in Int /\ q \in Int /\ \A i \in 3 .. q : c.buf[i] \in Word
    <3>1. ASSUME NEW i \in 3 .. q PROVE c.buf[i] \in Word
      <4> HIDE DEF m, b
      <4>1. i \in 1 .. b
          BY <1>2
      <4> QED BY <1>1, <4>1 DEF b
    <3> QED BY <1>2, <3>1
  <2>2. /\ pay \in Seq(Word)
        /\ Len(pay) = IF 3 <= q THEN q - 3 + 1 ELSE 0
        /\ \A i \in 1 .. q - 3 + 1 : pay[i] = c.buf[3 + i - 1]
    <3>1. pay = SubSeq(c.buf, 3, q)
        BY DEF Payload
    <3> HIDE DEF pay, q
    <3>2. /\ SubSeq(c.buf, 3, q) \in Seq(Word)
          /\ Len(SubSeq(c.buf, 3, q)) = IF 3 <= q THEN q - 3 + 1 ELSE 0
          /\ \A i \in 1 .. q - 3 + 1 : SubSeq(c.buf, 3, q)[i] = c.buf[3 + i - 1]
        BY ONLY <2>1, SubSeqProperties
    <3> QED BY <3>1, <3>2
  <2> HIDE DEF pay, m
  <2>3. Len(pay) = m
      BY <1>2, <2>2
  <2>4. ASSUME NEW j \in 1 .. m PROVE pay[j] = c.buf[2 + j]
    <3>1. j \in 1 .. q - 3 + 1 /\ 3 + j - 1 = 2 + j
        BY <1>2
    <3>2. pay[j] = c.buf[3 + j - 1]
      <4> HIDE DEF q
      <4> QED BY <2>2, <3>1
    <3> QED BY <3>1, <3>2
  <2> QED BY <2>2, <2>3, <2>4
<1>4. /\ left \in Seq(Word) /\ Len(left) = b - (m + 2)
      /\ \A i \in 1 .. b - (m + 2) : left[i] = c.buf[m + 2 + i]
  <2>1. m + 2 \in 0 .. b
      BY <1>2
  <2>2. left = SubSeq(c.buf, (m + 2) + 1, b)
    <3> HIDE DEF m
    <3>1. m + 3 = (m + 2) + 1
        BY <1>2
    <3>2. left = SubSeq(c.buf, m + 3, b)
        BY DEF AfterFrame, m
    <3> QED BY ONLY <3>1, <3>2
  <2> HIDE DEF left, m
  <2> QED BY <1>1, <2>1, <2>2, LastWords
<1>5. /\ c1.wire = c.wire /\ c1.buf = left /\ c1.decoded = Append(c.decoded, pay)
      /\ c1.up = c.up /\ c1.whole = c.whole /\ c1.written = c.written
    BY DEF Decoded, Connection
<1>6. c1 \in Connection
  <2>1. Append(c.decoded, pay) \in Seq(Seq(Word)) /\ left \in Seq(Word) /\ c.answers + 1 \in Nat
      BY <1>1, <1>3, <1>4
  <2> HIDE DEF pay, left
  <2>2. c1 = [c EXCEPT !.decoded = Append(c.decoded, pay), !.buf = left, !.answers = c.answers + 1]
      BY DEF Decoded, pay, left
  <2> HIDE DEF c1
  <2> QED BY <2>1, <2>2 DEF Connection
<1>7. /\ Len(Rest(c)) = b + w
      /\ \A i \in 1 .. b + w : Rest(c)[i] = IF i <= b THEN c.buf[i] ELSE c.wire[i - b]
    BY RestWords
<1> HIDE DEF c1, pay, left
<1>8. /\ Len(Rest(c1)) = Len(left) + w
      /\ \A i \in 1 .. Len(left) + w :
            Rest(c1)[i] = IF i <= Len(left) THEN left[i] ELSE c.wire[i - Len(left)]
    BY <1>5, <1>6, RestWords
<1>9. m = Rest(c)[2]
  <2>1. 2 \in 1 .. b + w /\ 2 <= b
    <3> HIDE DEF m, b, w
    <3> QED BY <1>2
  <2> QED BY <1>7, <2>1
<1> HIDE DEF m, b, w
<1>10. \A j \in 1 .. m : pay[j] = Rest(c)[2 + j]
  <2> TAKE j \in 1 .. m
  <2>1. 2 + j \in 1 .. b + w /\ 2 + j <= b
      BY <1>2
  <2> QED BY <1>3, <1>7, <2>1
<1>11. Len(Rest(c1)) = (b + w) - (m + 2)
    BY <1>2, <1>4, <1>8
<1>12. ASSUME NEW i \in 1 .. (b + w) - (m + 2)
       PROVE  Rest(c1)[i] = Rest(c)[m + 2 + i]
  <2>1. m + 2 + i \in 1 .. b + w /\ i \in 1 .. (b - (m + 2)) + w
      BY <1>2
  <2>2. CASE i <= b - (m + 2)
    <3>1. i \in 1 .. b - (m + 2) /\ m + 2 + i <= b
        BY <1>2, <2>2
    <3> QED BY <1>4, <1>7, <1>8, <2>1, <2>2, <3>1
  <2>3. CASE ~ (i <= b - (m + 2))
    <3>1. ~ (m + 2 + i <= b) /\ (m + 2 + i) - b = i - (b - (m + 2))
        BY <1>2, <2>3
    <3>2. Rest(c1)[i] = c.wire[i - (b - (m + 2))]
        BY <1>4, <1>8, <2>1, <2>3
    <3>3. Rest(c)[m + 2 + i] = c.wire[(m + 2 + i) - b]
        BY <1>7, <2>1, <3>1
    <3> QED BY <3>1, <3>2, <3>3
  <2> QED BY <2>2, <2>3
<1>13. m + 2 <= Len(Rest(c))
    BY <1>2, <1>7
<1> QED BY <1>2, <1>3, <1>5, <1>6, <1>7, <1>9, <1>10, <1>11, <1>12, <1>13 DEF m, c1, pay

\* What the codec decodes of a buffer that begins with a frame is the first
\* frame that is expected.
LEMMA DecodedSound ==
    ASSUME NEW c, Sound(c), HasFrame(c.buf)
    PROVE  Sound(Decoded(c))
<1> DEFINE c1 == Decoded(c)
           m == c.buf[2]
           pay == Payload(c.buf)
           d == Len(c.decoded)
           n == Len(c.written)
           l == Len(Rest(c))
<1>1. c \in Connection
    BY DEF Sound
<1>2. /\ c1 \in Connection /\ m \in Nat
      /\ c1.up = c.up /\ c1.whole = c.whole /\ c1.written = c.written
      /\ c1.decoded = Append(c.decoded, pay)
      /\ pay \in Seq(Word) /\ Len(pay) = m
      /\ \A j \in 1 .. m : pay[j] = Rest(c)[2 + j]
      /\ m = Rest(c)[2]
      /\ m + 2 <= l
      /\ Len(Rest(c1)) = l - (m + 2)
      /\ \A i \in 1 .. Len(Rest(c1)) : Rest(c1)[i] = Rest(c)[m + 2 + i]
    BY <1>1, DecodedWords
<1> HIDE DEF c1, m, pay
<1>3. /\ c.decoded \in Seq(Seq(Word)) /\ c.written \in Seq(Seq(Word))
      /\ d \in Nat /\ n \in Nat /\ l \in Nat
    BY <1>1, ConnectionFields, RestWords
<1>4. /\ Len(c1.decoded) = d + 1 /\ c1.decoded[d + 1] = pay
      /\ \A i \in 1 .. d : c1.decoded[i] = c.decoded[i]
    BY <1>2, <1>3, AppendProperties
<1>5. \A i \in (1 .. d) \intersect (1 .. n) : c.decoded[i] = c.written[i]
    BY <1>3 DEF Sound
<1>6. DOMAIN c1.decoded = 1 .. d + 1 /\ DOMAIN c1.written = 1 .. n
    BY <1>2, <1>3, <1>4
<1>7. CASE d >= n
  <2>1. ~ c.whole
    <3>1. SUFFICES ASSUME c.whole PROVE FALSE
        OBVIOUS
    <3>2. d = n
        BY <1>3, <1>7, <3>1 DEF Sound
    <3>3. PICK e : Framed(c, e)
        BY <3>2, <1>3 DEF Sound
    <3>4. l <= e[n] /\ e[d] = 0
        BY <3>1, <3>3 DEF Framed
    <3> QED BY <1>2, <1>3, <3>2, <3>4
  <2>2. ~ (d + 1 <= n)
      BY <1>3, <1>7
  <2>3. \A i \in (1 .. d + 1) \intersect (1 .. n) : c1.decoded[i] = c1.written[i]
    <3> TAKE i \in (1 .. d + 1) \intersect (1 .. n)
    <3>1. i \in 1 .. d /\ i \in 1 .. n
        BY <1>3, <1>7
    <3> QED BY <1>2, <1>4, <1>5, <3>1
  <2>4. Sound(c1)
      BY <1>2, <1>4, <1>6, <2>1, <2>2, <2>3 DEF Sound
  <2> QED BY <2>4 DEF c1
<1>8. CASE d < n
  <2>1. PICK e : Framed(c, e)
      BY <1>3, <1>8 DEF Sound
  <2> DEFINE p == c.written[d + 1]
  <2>2. /\ e \in [d .. n -> Nat] /\ e[d] = 0
        /\ \A i, j \in d .. n : i <= j => e[i] <= e[j]
        /\ \A i \in d + 1 .. n :
              /\ e[i] = e[i - 1] + 2 + Len(c.written[i])
              /\ \A j \in 1 .. 2 + Len(c.written[i]) :
                    e[i - 1] + j <= l => Rest(c)[e[i - 1] + j] = Frame(c.written[i])[j]
        /\ c.whole => l <= e[n]
        /\ c.up => e[n] <= l
      BY <2>1 DEF Framed
  <2>3. p \in Seq(Word) /\ Len(p) \in Nat
    <3>1. d + 1 \in 1 .. n
        BY <1>3, <1>8
    <3> QED BY <1>3, <3>1
  <2>4. /\ e[d + 1] = 2 + Len(p)
        /\ \A j \in 1 .. 2 + Len(p) : j <= l => Rest(c)[j] = Frame(p)[j]
    <3>1. d + 1 \in d + 1 .. n /\ (d + 1) - 1 = d
        BY <1>3, <1>8
    <3>2. /\ e[d + 1] = e[d] + 2 + Len(p)
          /\ \A j \in 1 .. 2 + Len(p) : e[d] + j <= l => Rest(c)[e[d] + j] = Frame(p)[j]
      <4> DEFINE i == d + 1
      <4>1. i \in d + 1 .. n /\ i - 1 = d
          BY <3>1
      <4> HIDE DEF i
      <4>2. /\ e[i] = e[i - 1] + 2 + Len(c.written[i])
            /\ \A j \in 1 .. 2 + Len(c.written[i]) :
                  e[i - 1] + j <= l => Rest(c)[e[i - 1] + j] = Frame(c.written[i])[j]
          BY <2>2, <4>1
      <4> QED BY <4>1, <4>2 DEF i
    <3>3. \A j \in 1 .. 2 + Len(p) : e[d] + j = j
        BY <2>2, <2>3
    <3> QED BY <2>2, <2>3, <3>2, <3>3
  <2> HIDE DEF p, l
  <2>5. m = Len(p)
    <3>1. 2 \in 1 .. 2 + Len(p) /\ 2 <= l
        BY <1>2, <1>3, <2>3
    <3>2. Rest(c)[2] = Frame(p)[2]
        BY <2>4, <3>1
    <3> QED BY <1>2, <2>3, <3>2, FrameWords
  <2>6. pay = p
    <3>1. ASSUME NEW j \in 1 .. m PROVE pay[j] = p[j]
      <4>1. 2 + j \in 1 .. 2 + Len(p) /\ 2 + j <= l /\ j \in 1 .. Len(p)
          BY <1>2, <1>3, <2>3, <2>5
      <4>2. Rest(c)[2 + j] = Frame(p)[2 + j]
          BY <2>4, <4>1
      <4>3. Frame(p)[j + 2] = p[j] /\ j + 2 = 2 + j
          BY <2>3, <4>1, FrameWords
      <4> QED BY <1>2, <4>2, <4>3
    <3>2. pay \in Seq(Word) /\ p \in Seq(Word) /\ Len(pay) = Len(p)
        BY <1>2, <2>3, <2>5
    <3> QED BY <1>2, <3>1, <3>2, SeqEqual
  <2> DEFINE f == [i \in d + 1 .. n |-> e[i] - (m + 2)]
  <2>7. \A i \in d + 1 .. n : e[i] \in Nat /\ m + 2 <= e[i] /\ f[i] = e[i] - (m + 2)
    <3> TAKE i \in d + 1 .. n
    <3>1. i \in d .. n /\ d + 1 \in d .. n /\ d + 1 <= i
        BY <1>3, <1>8
    <3>2. e[d + 1] <= e[i] /\ e[i] \in Nat
        BY <2>2, <3>1
    <3>3. e[d + 1] = m + 2
        BY <1>2, <2>3, <2>4, <2>5
    <3> QED BY <3>2, <3>3
  <2>8. /\ f \in [d + 1 .. n -> Nat]
        /\ f[d + 1] = 0
        /\ \A i, j \in d + 1 .. n : i <= j => f[i] <= f[j]
    <3>1. f \in [d + 1 .. n -> Nat]
      <4>1. ASSUME NEW i \in d + 1 .. n PROVE e[i] - (m + 2) \in Nat
        <5> HIDE DEF f
        <5>1. e[i] \in Nat /\ m + 2 <= e[i]
            BY <2>7
        <5> QED BY <1>2, <5>1
      <4> QED BY <4>1
    <3>2. d + 1 \in d + 1 .. n
        BY <1>3, <1>8
    <3>3. f[d + 1] = 0
        BY <1>2, <2>3, <2>4, <2>5, <2>7, <3>2
    <3>4. ASSUME NEW i \in d + 1 .. n, NEW j \in d + 1 .. n, i <= j PROVE f[i] <= f[j]
      <4>1. i \in d .. n /\ j \in d .. n
          BY <1>3
      <4>2. e[i] <= e[j]
          BY <2>2, <3>4, <4>1
      <4> HIDE DEF f
      <4> QED BY <1>2, <2>7, <4>2, SMTT(20)
    <3> QED BY <3>1, <3>3, <3>4
  <2> HIDE DEF f
  <2>9. ASSUME NEW i \in d + 2 .. n
        PROVE  /\ f[i] = f[i - 1] + 2 + Len(c1.written[i])
               /\ \A j \in 1 .. 2 + Len(c1.written[i]) :
                     f[i - 1] + j <= Len(Rest(c1)) =>
                        Rest(c1)[f[i - 1] + j] = Frame(c1.written[i])[j]
    <3> DEFINE a == e[i - 1]
               v == Len(c.written[i])
    <3>1. i \in d + 1 .. n /\ i - 1 \in d + 1 .. n
        BY <1>3
    <3>2. /\ e[i] = a + 2 + v
          /\ \A j \in 1 .. 2 + v : a + j <= l => Rest(c)[a + j] = Frame(c.written[i])[j]
        BY <2>2, <3>1
    <3>3. v \in Nat
      <4>1. i \in 1 .. n
          BY <1>3
      <4> QED BY <1>3, <4>1
    <3>4. a \in Nat /\ m + 2 <= a /\ f[i - 1] = a - (m + 2) /\ f[i] = e[i] - (m + 2)
        BY <2>7, <3>1
    <3> HIDE DEF a, v
    <3>5. f[i] = f[i - 1] + 2 + v
        BY <1>2, <3>2, <3>3, <3>4, SMTT(20)
    <3>6. ASSUME NEW j \in 1 .. 2 + v, f[i - 1] + j <= Len(Rest(c1))
          PROVE  Rest(c1)[f[i - 1] + j] = Frame(c.written[i])[j]
      <4>1. /\ f[i - 1] + j \in 1 .. Len(Rest(c1))
            /\ m + 2 + (f[i - 1] + j) = a + j
            /\ a + j <= l
        <5> DEFINE x == f[i - 1]
                   l1 == Len(Rest(c1))
        <5>1. /\ x = a - (m + 2) /\ a \in Nat /\ m \in Nat /\ m + 2 <= a /\ v \in Nat
              /\ x + j <= l1 /\ l1 = l - (m + 2) /\ l \in Nat /\ j \in 1 .. 2 + v
            BY <1>2, <1>3, <3>3, <3>4, <3>6
        <5> HIDE DEF x, l1
        <5>2. x + j \in 1 .. l1 /\ m + 2 + (x + j) = a + j /\ a + j <= l
            BY ONLY <5>1
        <5> QED BY <5>2 DEF x, l1
      <4> QED BY <1>2, <3>2, <4>1
    <3>7. c1.written[i] = c.written[i]
        BY <1>2
    <3> QED BY <3>5, <3>6, <3>7 DEF v
  <2>10. (c.whole => Len(Rest(c1)) <= f[n]) /\ (c.up => f[n] <= Len(Rest(c1)))
    <3>1. n \in d + 1 .. n
        BY <1>3, <1>8
    <3>2. e[n] \in Nat /\ f[n] = e[n] - (m + 2)
        BY <2>7, <3>1
    <3> QED BY <1>2, <1>3, <2>2, <3>2
  <2>11. Framed(c1, f)
    <3>1. Len(c1.decoded) = d + 1 /\ c1.written = c.written /\ (d + 1) + 1 = d + 2
        BY <1>2, <1>3, <1>4
    <3> QED BY <1>2, <2>8, <2>9, <2>10, <3>1 DEF Framed
  <2>12. \A i \in (1 .. d + 1) \intersect (1 .. n) : c1.decoded[i] = c1.written[i]
    <3> TAKE i \in (1 .. d + 1) \intersect (1 .. n)
    <3>1. CASE i = d + 1
        BY <1>2, <1>4, <2>6, <3>1 DEF p
    <3>2. CASE i \in 1 .. d
        BY <1>2, <1>4, <1>5, <3>2
    <3>3. i = d + 1 \/ i \in 1 .. d
      <4>1. i \in 1 .. d + 1 /\ d \in Nat
          BY <1>3
      <4> HIDE DEF d
      <4> QED BY <4>1
    <3> QED BY <3>1, <3>2, <3>3
  <2>13. d + 1 <= n
      BY <1>3, <1>8
  <2>14. \E e1 : Framed(c1, e1)
      BY <2>11
  <2>15. Sound(c1)
      BY <1>2, <1>4, <1>6, <2>12, <2>13, <2>14 DEF Sound
  <2> QED BY <2>15 DEF c1
<1> QED BY <1>3, <1>7, <1>8

-----------------------------------------------------------------------------
(* What each action makes of all connections.                              *)

Replaced(links, p, k, c1) == [links EXCEPT ![p][k] = c1]

\* Connections stay sound when one of them is replaced by a sound one.
LEMMA OneReplaced ==
    ASSUME NEW links, LinksSound(links), NEW p \in Peer, NEW k \in DOMAIN links[p],
           NEW c1, Sound(c1), NEW links1, links1 = Replaced(links, p, k, c1)
    PROVE  /\ LinksSound(links1)
           /\ \A q \in Peer : Len(links1[q]) = Len(links[q])
<1> DEFINE row == [links[p] EXCEPT ![k] = c1]
<1>1. links \in [Peer -> Seq(Connection)] /\ links[p] \in Seq(Connection) /\ c1 \in Connection
    BY DEF LinksSound, Sound
<1>2. /\ row \in Seq(Connection) /\ Len(row) = Len(links[p]) /\ DOMAIN row = DOMAIN links[p]
      /\ row[k] = c1 /\ \A j \in DOMAIN links[p] : j # k => row[j] = links[p][j]
    BY <1>1
<1>3. links1 = [links EXCEPT ![p] = row]
    BY <1>1 DEF Replaced
<1> HIDE DEF row
<1>4. links1 \in [Peer -> Seq(Connection)]
    BY <1>1, <1>2, <1>3
<1>5. links1[p] = row /\ \A q \in Peer : q # p => links1[q] = links[q]
    BY <1>1, <1>3
<1>6. ASSUME NEW q \in Peer, NEW j \in DOMAIN links1[q] PROVE Sound(links1[q][j])
  <2>1. CASE q # p
      BY <1>5, <1>6, <2>1 DEF LinksSound
  <2>2. CASE q = p /\ j = k
      BY <1>2, <1>5, <2>2
  <2>3. CASE q = p /\ j # k
      BY <1>2, <1>5, <1>6, <2>3 DEF LinksSound
  <2> QED BY <2>1, <2>2, <2>3
<1>7. \A q \in Peer : Len(links1[q]) = Len(links[q])
    BY <1>2, <1>5
<1>8. LinksSound(links1)
    BY <1>4, <1>6 DEF LinksSound
<1> QED BY <1>7, <1>8

\* The client's write to a peer keeps all connections sound.
LEMMA WriteKeeps ==
    ASSUME NEW links, LinksSound(links), NEW p \in Peer, links[p] # << >>,
           NEW payload \in Seq(Word), faults \in Nat, Write(links, p, payload)
    PROVE  /\ LinksSound(link')
           /\ \A q \in Peer : Len(link'[q]) = Len(links[q])
           /\ faults' \in Nat
<1> DEFINE k == Len(links[p])
           c == links[p][k]
<1>1. k \in DOMAIN links[p] /\ Sound(c)
  <2>1. links[p] \in Seq(Connection)
      BY DEF LinksSound
  <2>2. k \in DOMAIN links[p]
      BY <2>1
  <2> QED BY <2>2 DEF LinksSound
<1>2. CASE c.up /\ link' = [links EXCEPT ![p][k] = Sent(c, payload)] /\ UNCHANGED faults
  <2> DEFINE c1 == Sent(c, payload)
  <2>1. Sound(c1)
      BY <1>1, <1>2, SentSound
  <2>2. link' = Replaced(links, p, k, c1)
      BY <1>2 DEF Replaced
  <2> HIDE DEF k, c1
  <2>3. LinksSound(link') /\ \A q \in Peer : Len(link'[q]) = Len(links[q])
      BY <1>1, <2>1, <2>2, OneReplaced
  <2>4. faults' \in Nat
      BY <1>2
  <2> QED BY <2>3, <2>4
<1>3. ASSUME c.up, faults' = faults + 1, NEW n \in 1 .. Len(Frame(payload)) - 1,
             link' = [links EXCEPT ![p][k] = CutShort(c, SubSeq(Frame(payload), 1, n))]
      PROVE  /\ LinksSound(link')
             /\ \A q \in Peer : Len(link'[q]) = Len(links[q])
             /\ faults' \in Nat
  <2>1. Frame(payload) \in Seq(Word) /\ n \in 0 .. Len(Frame(payload))
      BY FrameWords
  <2>2. SubSeq(Frame(payload), 1, n) \in Seq(Word)
      BY <2>1, FirstWords
  <2> DEFINE c1 == CutShort(c, SubSeq(Frame(payload), 1, n))
  <2>3. Sound(c1)
      BY <1>1, <1>3, <2>2, CutShortSound
  <2>4. link' = Replaced(links, p, k, c1)
      BY <1>3 DEF Replaced
  <2> HIDE DEF k, c1
  <2>5. LinksSound(link') /\ \A q \in Peer : Len(link'[q]) = Len(links[q])
      BY <1>1, <2>3, <2>4, OneReplaced
  <2>6. faults' \in Nat
      BY <1>3
  <2> QED BY <2>5, <2>6
<1>4. CASE link' = links /\ UNCHANGED faults
    BY <1>4
<1> QED BY <1>2, <1>3, <1>4 DEF Write

\* An action that changes one connection and keeps it sound keeps all of them so.
LEMMA StepKeeps ==
    ASSUME IInv, NEW p \in Peer, NEW k \in DOMAIN link[p], NEW c1, Sound(c1),
           link' = [link EXCEPT ![p][k] = c1],
           UNCHANGED <<requests, at, open, sent>>, faults' \in Nat
    PROVE  IInv'
<1>1. /\ LinksSound(link')
      /\ \A q \in Peer : Len(link'[q]) = Len(link[q])
  <2>1. LinksSound(link)
      BY DEF IInv
  <2>2. link' = Replaced(link, p, k, c1)
      BY DEF Replaced
  <2>3. p \in Peer /\ k \in DOMAIN link[p] /\ Sound(c1)
      OBVIOUS
  <2> QED BY ONLY <2>1, <2>2, <2>3, OneReplaced
<1>2. \A q \in Peer : link[q] \in Seq(Connection) /\ link'[q] \in Seq(Connection)
    BY <1>1 DEF IInv, LinksSound
<1>3. \A q \in Peer : open'[q] => link'[q] # << >>
  <2> SUFFICES ASSUME NEW q \in Peer, open[q] PROVE link'[q] # << >>
      OBVIOUS
  <2>1. link[q] # << >>
      BY DEF IInv
  <2>2. Len(link[q]) # 0
      BY <1>2, <2>1
  <2> QED BY <1>1, <2>2
<1>4. TypeOK'
    BY <1>1 DEF IInv, TypeOK, LinksSound
<1> QED BY <1>1, <1>3, <1>4 DEF IInv

\* What a request writes is the sender's id and the message, both of them
\* words.
LEMMA MessageWords ==
    ASSUME requests \in Seq(Requests), requests # << >>
    PROVE  <<Me>> \o Head(requests).msg \in Seq(Word)
<1>1. Head(requests) \in Requests
    OBVIOUS
<1>2. Head(requests).msg \in Seq(Word) /\ <<Me>> \in Seq(Word)
    BY <1>1, StreamAssumption
<1> QED BY <1>2, ConcatProperties

\* Before anybody connects there is no connection that could be unsound.
LEMMA InitSound == Init => IInv
<1> SUFFICES ASSUME Init PROVE IInv
    OBVIOUS
<1>1. 1 \in DOMAIN Pairs
    BY StreamAssumption
<1>2. link \in [Peer -> Seq(Connection)] /\ \A p \in Peer : DOMAIN link[p] = {}
    BY DEF Init
<1> QED BY <1>1, <1>2 DEF Init, IInv, TypeOK, LinksSound

\* Every step of clients, servers, peer threads and the network keeps all
\* connections sound.
LEMMA NextSound == IInv /\ [Next]_vars => IInv'
<1> SUFFICES ASSUME IInv, [Next]_vars PROVE IInv'
    OBVIOUS
<1>1. /\ requests \in Seq(Requests) /\ at \in DOMAIN Pairs
      /\ link \in [Peer -> Seq(Connection)] /\ open \in [Peer -> BOOLEAN]
      /\ sent \in Nat /\ faults \in Nat
      /\ LinksSound(link)
      /\ \A p \in Peer : open[p] => link[p] # << >>
    BY DEF IInv, TypeOK
<1>2. ASSUME NEW r \in Requests, Request(r) PROVE IInv'
  <2>1. requests' \in Seq(Requests) /\ sent' \in Nat
      BY <1>1, <1>2 DEF Request
  <2> QED BY <1>1, <1>2, <2>1 DEF Request, IInv, TypeOK, LinksSound
<1>3. CASE Broadcast
  <2> DEFINE p == Pairs[at]
             r == Head(requests)
  <2>1. p \in Peer
      BY <1>1 DEF Peer
  <2>2. requests # << >>
      BY <1>3 DEF Broadcast
  <2>3. /\ LinksSound(link')
        /\ \A q \in Peer : Len(link'[q]) = Len(link[q])
        /\ faults' \in Nat
    <3>1. CASE IsSend(p, r) /\ open[p]
      <4>1. Write(link, p, <<Me>> \o r.msg)
          BY <1>3, <3>1 DEF Broadcast
      <4>2. <<Me>> \o r.msg \in Seq(Word)
          BY <1>1, <2>2, MessageWords
      <4> QED BY <1>1, <2>1, <3>1, <4>1, <4>2, WriteKeeps
    <3>2. CASE ~ (IsSend(p, r) /\ open[p])
      <4>1. link' = link /\ faults' = faults
          BY <1>3, <3>2 DEF Broadcast
      <4> QED BY <1>1, <4>1
    <3> QED BY <3>1, <3>2
  <2>4. at' \in DOMAIN Pairs
    <3>1. Pairs \in Seq(Word) /\ Len(Pairs) \in Nat /\ DOMAIN Pairs = 1 .. Len(Pairs)
        BY StreamAssumption
    <3>2. at' = IF at < Len(Pairs) THEN at + 1 ELSE 1
        BY <1>3 DEF Broadcast, Advance
    <3> QED BY <1>1, <3>1, <3>2
  <2>5. requests' \in Seq(Requests)
    <3>1. Tail(requests) \in Seq(Requests)
        BY <1>1, <2>2
    <3>2. requests' = requests \/ requests' = Tail(requests)
        BY <1>3 DEF Broadcast, Advance
    <3> QED BY <1>1, <3>1, <3>2
  <2>6. open' = open /\ sent' = sent
      BY <1>3 DEF Broadcast
  <2>7. \A q \in Peer : open'[q] => link'[q] # << >>
    <3> SUFFICES ASSUME NEW q \in Peer, open[q] PROVE link'[q] # << >>
        BY <2>6
    <3>1. Len(link[q]) # 0
      <4>1. link[q] \in Seq(Connection) /\ link[q] # << >>
          BY <1>1
      <4> QED BY <4>1
    <3> QED BY <2>3, <3>1
  <2> QED BY <1>1, <2>3, <2>4, <2>5, <2>6, <2>7 DEF IInv, TypeOK, LinksSound
<1>4. ASSUME NEW p \in Peer, Connect(p) PROVE IInv'
  <2> DEFINE links == [link EXCEPT ![p] = Append(@, NewConnection)]
  <2>1. link[p] \in Seq(Connection) /\ NewConnection \in Connection /\ Sound(NewConnection)
      BY <1>1, NewSound DEF Sound
  <2>2. /\ links \in [Peer -> Seq(Connection)]
        /\ links[p] = Append(link[p], NewConnection)
        /\ \A q \in Peer : q # p => links[q] = link[q]
      BY <1>1, <2>1
  <2>3. /\ links[p] # << >>
        /\ Len(links[p]) = Len(link[p]) + 1
        /\ \A k \in 1 .. Len(link[p]) : links[p][k] = link[p][k]
        /\ links[p][Len(link[p]) + 1] = NewConnection
      BY <2>1, <2>2, AppendProperties
  <2>4. Write(links, p, << >>)
      BY <1>4 DEF Connect
  <2> HIDE DEF links
  <2>5. LinksSound(links)
    <3>1. ASSUME NEW q \in Peer, NEW k \in DOMAIN links[q] PROVE Sound(links[q][k])
      <4>1. CASE q # p
          BY <1>1, <2>2, <3>1, <4>1 DEF LinksSound
      <4>2. CASE q = p
        <5>1. DOMAIN links[p] = 1 .. Len(link[p]) + 1 /\ DOMAIN link[p] = 1 .. Len(link[p])
              /\ Len(link[p]) \in Nat
            BY <2>1, <2>2, <2>3
        <5>2. k = Len(link[p]) + 1 \/ k \in DOMAIN link[p]
            BY <3>1, <4>2, <5>1
        <5>3. CASE k = Len(link[p]) + 1
            BY <2>1, <2>3, <4>2, <5>3
        <5>4. CASE k \in DOMAIN link[p]
            BY <1>1, <2>3, <4>2, <5>1, <5>4 DEF LinksSound
        <5> QED BY <5>2, <5>3, <5>4
      <4> QED BY <4>1, <4>2
    <3> QED BY <2>2, <3>1 DEF LinksSound
  <2>6. << >> \in Seq(Word)
      OBVIOUS
  <2>7. /\ LinksSound(link')
        /\ \A q \in Peer : Len(link'[q]) = Len(links[q])
        /\ faults' \in Nat
      BY <1>1, <2>3, <2>4, <2>5, <2>6, WriteKeeps
  <2>8. \A q \in Peer : open'[q] => link'[q] # << >>
    <3> SUFFICES ASSUME NEW q \in Peer, open'[q] PROVE link'[q] # << >>
        OBVIOUS
    <3>1. links[q] \in Seq(Connection)
        BY <2>2
    <3>2. links[q] # << >>
      <4>1. q # p => open[q]
          BY <1>1, <1>4, <3>1 DEF Connect
      <4> QED BY <1>1, <2>2, <2>3, <4>1
    <3>3. Len(links[q]) # 0
        BY <3>1, <3>2
    <3> QED BY <2>7, <3>3
  <2>9. requests' = requests /\ at' = at /\ sent' = sent /\ open' \in [Peer -> BOOLEAN]
      BY <1>1, <1>4 DEF Connect
  <2> QED BY <1>1, <2>7, <2>8, <2>9 DEF IInv, TypeOK, LinksSound
<1>5. ASSUME NEW p \in Peer, Handshake(p) PROVE IInv'
  <2>1. open[p] /\ Write(link, p, << >>) /\ UNCHANGED <<requests, at, open, sent>>
      BY <1>5 DEF Handshake
  <2>2. << >> \in Seq(Word)
      OBVIOUS
  <2>3. /\ LinksSound(link')
        /\ \A q \in Peer : Len(link'[q]) = Len(link[q])
        /\ faults' \in Nat
      BY <1>1, <2>1, <2>2, WriteKeeps
  <2>4. \A q \in Peer : open'[q] => link'[q] # << >>
    <3> SUFFICES ASSUME NEW q \in Peer, open[q] PROVE link'[q] # << >>
        BY <2>1
    <3>1. Len(link[q]) # 0
      <4>1. link[q] \in Seq(Connection) /\ link[q] # << >>
          BY <1>1
      <4> QED BY <4>1
    <3> QED BY <2>3, <3>1
  <2> QED BY <1>1, <2>1, <2>3, <2>4 DEF IInv, TypeOK, LinksSound
<1>6. ASSUME NEW p \in Peer, NeedReconnect(p) PROVE IInv'
  <2>1. /\ open' = [open EXCEPT ![p] = FALSE]
        /\ UNCHANGED <<requests, at, link, sent, faults>>
      BY <1>6 DEF NeedReconnect
  <2>2. open' \in [Peer -> BOOLEAN] /\ \A q \in Peer : open'[q] => open[q]
      BY <1>1, <2>1
  <2> QED BY <1>1, <2>1, <2>2 DEF IInv, TypeOK, LinksSound
<1>7. ASSUME NEW p \in Peer, NEW k \in DOMAIN link[p], Break(p, k) PROVE IInv'
  <2>1. PICK n \in 0 .. Len(link[p][k].wire) :
           /\ link' = [link EXCEPT ![p][k] = Broken(link[p][k], n)]
           /\ faults' = faults + 1 /\ UNCHANGED <<requests, at, open, sent>>
      BY <1>7 DEF Break
  <2>2. Sound(link[p][k])
      BY <1>1 DEF LinksSound
  <2>3. Sound(Broken(link[p][k], n))
      BY <2>2, BrokenSound
  <2>4. faults' \in Nat
      BY <1>1, <2>1
  <2> QED BY <2>1, <2>3, <2>4, StepKeeps
<1>8. ASSUME NEW p \in Peer, NEW k \in DOMAIN link[p], Read(p, k) PROVE IInv'
  <2>1. PICK n \in 1 .. Len(link[p][k].wire) :
           /\ link' = [link EXCEPT ![p][k] = Filled(link[p][k], n)]
           /\ UNCHANGED <<requests, at, open, sent, faults>>
      BY <1>8 DEF Read
  <2>2. Sound(link[p][k])
      BY <1>1 DEF LinksSound
  <2>3. Sound(Filled(link[p][k], n))
      BY <2>2, FilledSound
  <2> QED BY <1>1, <2>1, <2>3, StepKeeps
<1>9. ASSUME NEW p \in Peer, NEW k \in DOMAIN link[p], Decode(p, k) PROVE IInv'
  <2>1. /\ HasFrame(link[p][k].buf)
        /\ link' = [link EXCEPT ![p][k] = Decoded(link[p][k])]
        /\ UNCHANGED <<requests, at, open, sent, faults>>
      BY <1>9 DEF Decode
  <2>2. Sound(link[p][k])
      BY <1>1 DEF LinksSound
  <2>3. Sound(Decoded(link[p][k]))
      BY <2>1, <2>2, DecodedSound
  <2> QED BY <1>1, <2>1, <2>3, StepKeeps
<1>10. CASE UNCHANGED vars
    BY <1>10 DEF vars, IInv, TypeOK, LinksSound
<1> QED BY <1>2, <1>3, <1>4, <1>5, <1>6, <1>7, <1>8, <1>9, <1>10 DEF Next

\* The inductive invariant holds of every run.
THEOREM Invariance == Spec => []IInv
    BY InitSound, NextSound, PTL DEF Spec

-----------------------------------------------------------------------------
(* What it is for.                                                         *)

\* The variables keep their types; the client's loop stays in peers_pair.
THEOREM TypeCorrect == Spec => []TypeOK
<1>1. IInv => TypeOK
    BY DEF IInv
<1> QED BY <1>1, Invariance, PTL

\* Whatever the pieces in which its bytes arrive and the words they carry, a
\* server decodes what was written to it as it was written, in order and once,
\* up to the first write cut short.
THEOREM DecodesWhatWasWritten == Spec => []DecodedAsWritten
<1>1. IInv => DecodedAsWritten
  <2> SUFFICES ASSUME IInv, NEW p \in Peer, NEW k \in DOMAIN link[p]
               PROVE  LET c == link[p][k]
                      IN  /\ \A i \in DOMAIN c.decoded \intersect DOMAIN c.written :
                                c.decoded[i] = c.written[i]
                          /\ c.whole => Len(c.decoded) <= Len(c.written)
      BY DEF DecodedAsWritten
  <2>1. Sound(link[p][k])
      BY DEF IInv, LinksSound
  <2> QED BY <2>1 DEF Sound
<1> QED BY <1>1, Invariance, PTL

-----------------------------------------------------------------------------
(***************************************************************************)
(* For every network, every capacity and any number of transactions: the   *)
(* miner's package never meets an order without its transaction, and a     *)
(* node whose filter has room takes each transaction in once.              *)
(*                                                                         *)
(* The second needs to know what the filter holds: as long as a node has   *)
(* seen no more transactions than the filter has room for, the filter      *)
(* holds exactly these, so an insert drops none.  NodeOK says so of one    *)
(* node; each method of the pool is shown to keep it, and each action      *)
(* applies one method to one node.                                         *)
(***************************************************************************)

OfHash(orders, t) == {o \in orders : o.hash = t}

Positive(acc) == {t \in Tx : acc[t] > 0}

RoomFor(p, acc, cap) ==
    Cardinality(Positive(acc)) <= cap =>
        /\ Len(p.recent) = Cardinality(Positive(acc))
        /\ \A t \in Tx : Contains(p.recent, t) <=> acc[t] > 0
        /\ \A t \in Tx : acc[t] <= 1 /\ Cardinality(OfHash(p.orders, t)) <= acc[t]

NodeOK(p, acc, cap) ==
    /\ IsFiniteSet(p.orders)
    /\ \A o \in p.orders : o.hash \in p.txs
    /\ IsFiniteSet(Positive(acc))
    /\ RoomFor(p, acc, cap)

GossipIInv == GossipTypeOK /\ \A n \in Node : NodeOK(pool[n], accepted[n], Capacity[n])

-----------------------------------------------------------------------------
(* The filter.                                                             *)

\* Looking a key up moves it and loses none.
LEMMA RefreshedKeeps ==
    ASSUME NEW recent \in Seq(Tx), NEW t \in Tx, Contains(recent, t)
    PROVE  /\ Refreshed(recent, t) \in Seq(Tx)
           /\ Len(Refreshed(recent, t)) = Len(recent)
           /\ \A x \in Tx : Contains(Refreshed(recent, t), x) <=> Contains(recent, x)
<1> DEFINE i == Position(recent, t)
           n == Len(recent)
           front == SubSeq(recent, 1, i - 1)
           back == SubSeq(recent, i + 1, n)
           r == Refreshed(recent, t)
<1>1. i \in 1 .. n /\ recent[i] = t
    BY DEF Contains, Position
<1>2. n \in Nat /\ DOMAIN recent = 1 .. n
    OBVIOUS
<1> HIDE DEF i, n
<1>3. /\ front \in Seq(Tx) /\ Len(front) = i - 1
      /\ \A j \in 1 .. i - 1 : front[j] = recent[j]
    BY <1>1, <1>2, SubSeqProperties DEF n
<1>4. /\ back \in Seq(Tx) /\ Len(back) = n - i
      /\ \A j \in 1 .. n - i : back[j] = recent[i + j]
  <2>1. i + 1 \in Int /\ n \in Int /\ \A j \in i + 1 .. n : recent[j] \in Tx
      BY <1>1, <1>2
  <2>2. /\ back \in Seq(Tx)
        /\ Len(back) = IF i + 1 <= n THEN n - (i + 1) + 1 ELSE 0
        /\ \A j \in 1 .. n - (i + 1) + 1 : back[j] = recent[(i + 1) + j - 1]
      BY ONLY <2>1, SubSeqProperties DEF back
  <2>3. /\ n - (i + 1) + 1 = n - i /\ (i + 1 <= n \/ n - i = 0)
        /\ \A j \in 1 .. n - i : (i + 1) + j - 1 = i + j
      BY <1>1, <1>2
  <2> HIDE DEF back
  <2>4. Len(back) = n - i
      BY <2>2, <2>3
  <2> QED BY <2>2, <2>3, <2>4
<1> HIDE DEF front, back
<1>5. /\ front \o back \in Seq(Tx) /\ Len(front \o back) = n - 1
      /\ \A j \in 1 .. n - 1 : (front \o back)[j] = IF j < i THEN recent[j] ELSE recent[j + 1]
  <2>0. /\ front \o back \in Seq(Tx) /\ Len(front \o back) = Len(front) + Len(back)
        /\ \A j \in 1 .. Len(front) + Len(back) :
              (front \o back)[j] = IF j <= Len(front) THEN front[j] ELSE back[j - Len(front)]
      BY ONLY <1>3, <1>4, ConcatProperties
  <2>1. /\ front \o back \in Seq(Tx) /\ Len(front \o back) = (i - 1) + (n - i)
        /\ \A j \in 1 .. (i - 1) + (n - i) :
              (front \o back)[j] = IF j <= i - 1 THEN front[j] ELSE back[j - (i - 1)]
      BY ONLY <1>3, <1>4, <2>0
  <2>2. i \in Int /\ n \in Int /\ (i - 1) + (n - i) = n - 1
      BY <1>1, <1>2
  <2>3. ASSUME NEW j \in 1 .. n - 1
        PROVE  (front \o back)[j] = IF j < i THEN recent[j] ELSE recent[j + 1]
    <3>1. CASE j < i
      <4>1. j \in 1 .. i - 1 /\ j <= i - 1
          BY <2>2, <2>3, <3>1
      <4> QED BY <1>3, <2>1, <2>2, <3>1, <4>1
    <3>2. CASE ~(j < i)
      <4>1. /\ j - (i - 1) \in 1 .. n - i /\ ~(j <= i - 1)
            /\ i + (j - (i - 1)) = j + 1
          BY <1>1, <2>2, <2>3, <3>2
      <4>2. back[j - (i - 1)] = recent[i + (j - (i - 1))]
          BY <1>4, <4>1
      <4> QED BY <2>1, <2>2, <3>2, <4>1, <4>2
    <3> QED BY <3>1, <3>2
  <2> QED BY <2>1, <2>2, <2>3
<1>6. r = Append(front \o back, t)
    BY DEF Refreshed, r, front, back, i, n
<1>7. /\ r \in Seq(Tx) /\ Len(r) = n /\ r[n] = t
      /\ \A j \in 1 .. n - 1 : r[j] = IF j < i THEN recent[j] ELSE recent[j + 1]
    BY <1>1, <1>2, <1>5, <1>6
<1> HIDE DEF r
<1>8. DOMAIN r = 1 .. n
    BY <1>7
<1>9. ASSUME NEW x \in Tx, Contains(recent, x) PROVE Contains(r, x)
  <2>1. PICK j \in 1 .. n : recent[j] = x
      BY <1>2, <1>9 DEF Contains
  <2>2. CASE j < i
      BY <1>1, <1>2, <1>7, <1>8, <2>1, <2>2 DEF Contains
  <2>3. CASE j = i
      BY <1>1, <1>2, <1>7, <1>8, <2>1, <2>3 DEF Contains
  <2>4. CASE j > i
    <3>1. j - 1 \in 1 .. n - 1 /\ r[j - 1] = recent[j]
        BY <1>1, <1>2, <1>7, <2>1, <2>4
    <3> QED BY <1>2, <1>8, <2>1, <3>1 DEF Contains
  <2> QED BY <1>1, <1>2, <2>1, <2>2, <2>3, <2>4
<1>10. ASSUME NEW x \in Tx, Contains(r, x) PROVE Contains(recent, x)
  <2>1. PICK j \in 1 .. n : r[j] = x
      BY <1>8, <1>10 DEF Contains
  <2>2. CASE j = n
      BY <1>1, <1>2, <1>7, <2>1, <2>2 DEF Contains
  <2>3. CASE j < n
      BY <1>1, <1>2, <1>7, <2>1, <2>3, SMTT(20) DEF Contains
  <2> QED BY <1>2, <2>1, <2>2, <2>3
<1> QED
    BY <1>7, <1>9, <1>10 DEF r, n

\* An insert that meets room is an append.
LEMMA InsertedAppends ==
    ASSUME NEW recent \in Seq(Tx), NEW t \in Tx, NEW cap \in Nat
    PROVE  /\ Inserted(recent, t, cap) \in Seq(Tx)
           /\ Len(recent) + 1 <= cap =>
                /\ Len(Inserted(recent, t, cap)) = Len(recent) + 1
                /\ \A x \in Tx : Contains(Inserted(recent, t, cap), x)
                                    <=> Contains(recent, x) \/ x = t
<1> DEFINE longer == Append(recent, t)
<1>1. longer \in Seq(Tx) /\ Len(longer) = Len(recent) + 1 /\ Len(recent) \in Nat
    OBVIOUS
<1>2. Tail(longer) \in Seq(Tx)
    BY <1>1
<1>3. \A x \in Tx : Contains(longer, x) <=> Contains(recent, x) \/ x = t
    BY DEF Contains
<1> QED
    BY <1>1, <1>2, <1>3 DEF Inserted

-----------------------------------------------------------------------------
(* The pool.                                                               *)

\* Orders are typed, and there is at most one more.
LEMMA OrderedAdds ==
    ASSUME NEW orders \in SUBSET TxOrder, IsFiniteSet(orders),
           NEW t \in Tx, NEW n \in 0 .. OrderSpace - 1
    PROVE  /\ Ordered(orders, t, n) \in SUBSET TxOrder
           /\ IsFiniteSet(Ordered(orders, t, n))
           /\ \A o \in Ordered(orders, t, n) : o \in orders \/ o.hash = t
           /\ \A x \in Tx :
                 Cardinality(OfHash(Ordered(orders, t, n), x))
                    <= Cardinality(OfHash(orders, x)) + (IF x = t THEN 1 ELSE 0)
<1> DEFINE new == [hash |-> t, order |-> n]
<1>1. new \in TxOrder
    BY DEF TxOrder
<1>2. \A x : OfHash(orders, x) \in SUBSET orders
    BY DEF OfHash
<1>3. \A x : IsFiniteSet(OfHash(orders, x)) /\ Cardinality(OfHash(orders, x)) \in Nat
    BY <1>2, FS_Subset, FS_CardinalityType
<1>4. CASE \E o \in orders : o.order = n
  <2>1. Ordered(orders, t, n) = orders
      BY <1>4 DEF Ordered
  <2> QED BY <1>3, <2>1
<1>5. CASE ~\E o \in orders : o.order = n
  <2>1. Ordered(orders, t, n) = orders \union {new}
      BY <1>5 DEF Ordered
  <2>2. IsFiniteSet(orders \union {new})
      BY FS_AddElement
  <2>3. ASSUME NEW x \in Tx, x = t
        PROVE  Cardinality(OfHash(orders \union {new}, x)) <= Cardinality(OfHash(orders, x)) + 1
    <3> DEFINE c == Cardinality(OfHash(orders, x))
               d == Cardinality(OfHash(orders \union {new}, x))
    <3>1. OfHash(orders \union {new}, x) = OfHash(orders, x) \union {new}
        BY <2>3 DEF OfHash
    <3>2. Cardinality(OfHash(orders, x) \union {new}) =
            IF new \in OfHash(orders, x) THEN c ELSE c + 1
        BY <1>3, FS_AddElement
    <3>3. c \in Nat /\ (d = c \/ d = c + 1)
        BY <1>3, <3>1, <3>2, Zenon
    <3> HIDE DEF c, d
    <3>4. d <= c + 1
        BY <3>3
    <3> QED BY <3>4 DEF c, d
  <2>4. ASSUME NEW x \in Tx, x # t
        PROVE  OfHash(orders \union {new}, x) = OfHash(orders, x)
      BY <2>4 DEF OfHash
  <2>5. \A o \in orders \union {new} : o \in orders \/ o.hash = t
      OBVIOUS
  <2> HIDE DEF new
  <2>6. \A x \in Tx : Cardinality(OfHash(orders \union {new}, x))
                        <= Cardinality(OfHash(orders, x)) + (IF x = t THEN 1 ELSE 0)
    <3> TAKE x \in Tx
    <3> DEFINE c == Cardinality(OfHash(orders, x))
               d == Cardinality(OfHash(orders \union {new}, x))
    <3>1. c \in Nat /\ (x = t => d <= c + 1) /\ (x # t => d = c)
        BY <1>3, <2>3, <2>4, Zenon
    <3> HIDE DEF c, d
    <3>2. d <= c + (IF x = t THEN 1 ELSE 0)
        BY <3>1
    <3> QED BY <3>2 DEF c, d
  <2> QED BY <1>1, <2>1, <2>2, <2>5, <2>6
<1> QED BY <1>4, <1>5

\* enqueue of a transaction that the filter does not hold.
LEMMA EnqueueNew ==
    ASSUME NEW p \in PoolType, NEW acc \in [Tx -> Nat], NEW cap \in Nat \ {0},
           NEW t \in Tx, NodeOK(p, acc, cap), ~Contains(p.recent, t)
    PROVE  /\ Enqueued(p, t, cap) \in PoolType
           /\ NodeOK(Enqueued(p, t, cap), [acc EXCEPT ![t] = @ + 1], cap)
<1> DEFINE q == Enqueued(p, t, cap)
           acc2 == [acc EXCEPT ![t] = @ + 1]
           seen == Positive(acc)
           k == Cardinality(seen)
<1>1. /\ q.recent = Inserted(p.recent, t, cap)
      /\ q.orders = Ordered(p.orders, t, p.order)
      /\ q.txs = p.txs \union {t}
      /\ q.order = (p.order + 1) % OrderSpace
      /\ q = [recent |-> q.recent, orders |-> q.orders, txs |-> q.txs, order |-> q.order]
    BY DEF Enqueued
<1>2. /\ p.recent \in Seq(Tx) /\ p.orders \in SUBSET TxOrder /\ p.txs \in SUBSET Tx
      /\ p.order \in 0 .. OrderSpace - 1
    BY DEF PoolType
<1>3. /\ IsFiniteSet(p.orders) /\ IsFiniteSet(seen) /\ RoomFor(p, acc, cap)
      /\ \A o \in p.orders : o.hash \in p.txs
    BY DEF NodeOK
<1>4. (p.order + 1) % OrderSpace \in 0 .. OrderSpace - 1
    BY <1>2, PoolAssumption
<1> HIDE DEF q
<1>5. /\ q.recent \in Seq(Tx)
      /\ Len(p.recent) + 1 <= cap =>
           /\ Len(q.recent) = Len(p.recent) + 1
           /\ \A x \in Tx : Contains(q.recent, x) <=> Contains(p.recent, x) \/ x = t
  <2>1. cap \in Nat
      OBVIOUS
  <2>2. /\ Inserted(p.recent, t, cap) \in Seq(Tx)
        /\ Len(p.recent) + 1 <= cap =>
             /\ Len(Inserted(p.recent, t, cap)) = Len(p.recent) + 1
             /\ \A x \in Tx : Contains(Inserted(p.recent, t, cap), x)
                                <=> Contains(p.recent, x) \/ x = t
      BY <1>2, <2>1, InsertedAppends
  <2> QED BY ONLY <1>1, <2>2
<1>6. /\ q.orders \in SUBSET TxOrder /\ IsFiniteSet(q.orders)
      /\ \A o \in q.orders : o \in p.orders \/ o.hash = t
      /\ \A x \in Tx : Cardinality(OfHash(q.orders, x))
                          <= Cardinality(OfHash(p.orders, x)) + (IF x = t THEN 1 ELSE 0)
    BY <1>1, <1>2, <1>3, OrderedAdds
<1>7. q \in PoolType
    BY <1>1, <1>2, <1>4, <1>5, <1>6 DEF PoolType
<1>8. \A o \in q.orders : o.hash \in q.txs
    BY <1>1, <1>3, <1>6
<1>9. /\ acc2 \in [Tx -> Nat] /\ acc2[t] = acc[t] + 1
      /\ \A x \in Tx : x # t => acc2[x] = acc[x]
    OBVIOUS
<1> HIDE DEF acc2
<1>10. Positive(acc2) = seen \union {t}
    BY <1>9 DEF Positive
<1>11. /\ IsFiniteSet(Positive(acc2)) /\ k \in Nat
       /\ Cardinality(Positive(acc2)) = IF t \in seen THEN k ELSE k + 1
    BY <1>3, <1>10, FS_AddElement, FS_CardinalityType
<1>12. ASSUME Cardinality(Positive(acc2)) <= cap
       PROVE  /\ Len(q.recent) = Cardinality(Positive(acc2))
              /\ \A x \in Tx : Contains(q.recent, x) <=> acc2[x] > 0
              /\ \A x \in Tx : acc2[x] <= 1 /\ Cardinality(OfHash(q.orders, x)) <= acc2[x]
  <2>1. k <= cap
      BY <1>11, <1>12
  <2>2. /\ Len(p.recent) = k
        /\ \A x \in Tx : Contains(p.recent, x) <=> acc[x] > 0
        /\ \A x \in Tx : acc[x] <= 1 /\ Cardinality(OfHash(p.orders, x)) <= acc[x]
      BY <1>3, <2>1 DEF RoomFor
  <2>3. acc[t] = 0 /\ t \notin seen
      BY <2>2 DEF Positive
  <2>4. Cardinality(Positive(acc2)) = k + 1 /\ k + 1 <= cap
      BY <1>11, <1>12, <2>3
  <2>5. /\ Len(q.recent) = k + 1
        /\ \A x \in Tx : Contains(q.recent, x) <=> Contains(p.recent, x) \/ x = t
      BY <1>5, <2>2, <2>4
  <2>6. \A x \in Tx : Contains(q.recent, x) <=> acc2[x] > 0
      BY <1>9, <2>2, <2>3, <2>5
  <2>7. ASSUME NEW x \in Tx
        PROVE  acc2[x] <= 1 /\ Cardinality(OfHash(q.orders, x)) <= acc2[x]
    <3>1. /\ Cardinality(OfHash(p.orders, x)) \in Nat
          /\ Cardinality(OfHash(q.orders, x)) \in Nat
        BY <1>3, <1>6, FS_Subset, FS_CardinalityType DEF OfHash
    <3> DEFINE c == Cardinality(OfHash(p.orders, x))
               d == Cardinality(OfHash(q.orders, x))
    <3>2. c \in Nat /\ d \in Nat /\ c <= acc[x] /\ acc[x] <= 1
        BY <2>2, <3>1
    <3>3. d <= c + (IF x = t THEN 1 ELSE 0)
        BY <1>6
    <3> HIDE DEF c, d
    <3>4. acc2[x] <= 1 /\ d <= acc2[x]
        BY <1>9, <2>3, <3>2, <3>3
    <3> QED BY <3>4 DEF d
  <2> QED BY <2>4, <2>5, <2>6, <2>7
<1>13. RoomFor(q, acc2, cap)
    BY <1>12 DEF RoomFor
<1> QED
    BY <1>3, <1>6, <1>7, <1>8, <1>11, <1>13 DEF NodeOK, q, acc2

\* enqueue of a transaction that it holds.
LEMMA EnqueueKnown ==
    ASSUME NEW p \in PoolType, NEW acc \in [Tx -> Nat], NEW cap \in Nat \ {0},
           NEW t \in Tx, NodeOK(p, acc, cap), Contains(p.recent, t)
    PROVE  /\ Enqueued(p, t, cap) \in PoolType
           /\ NodeOK(Enqueued(p, t, cap), acc, cap)
<1> DEFINE q == Enqueued(p, t, cap)
<1>1. /\ q.recent = Refreshed(p.recent, t)
      /\ q.orders = p.orders /\ q.txs = p.txs /\ q.order = p.order
      /\ q = [recent |-> q.recent, orders |-> q.orders, txs |-> q.txs, order |-> q.order]
    BY DEF Enqueued, PoolType
<1>2. p.recent \in Seq(Tx)
    BY DEF PoolType
<1> HIDE DEF q
<1>3. /\ q.recent \in Seq(Tx) /\ Len(q.recent) = Len(p.recent)
      /\ \A x \in Tx : Contains(q.recent, x) <=> Contains(p.recent, x)
    BY <1>1, <1>2, RefreshedKeeps
<1>4. q \in PoolType
    BY <1>1, <1>3 DEF PoolType
<1>5. RoomFor(q, acc, cap)
    BY <1>1, <1>3 DEF NodeOK, RoomFor
<1> QED
    BY <1>1, <1>4, <1>5 DEF NodeOK, q

\* update, whatever the list of hashes.
LEMMA UpdateKeeps ==
    ASSUME NEW p \in PoolType, NEW acc \in [Tx -> Nat], NEW cap \in Nat \ {0},
           NEW hashes \in SUBSET Tx, NodeOK(p, acc, cap)
    PROVE  /\ Updated(p, hashes) \in PoolType
           /\ NodeOK(Updated(p, hashes), acc, cap)
<1> DEFINE q == Updated(p, hashes)
<1>1. /\ q.recent = p.recent /\ q.order = p.order /\ q.txs = p.txs \ hashes
      /\ q.orders = {o \in p.orders : o.hash \notin hashes}
      /\ q = [recent |-> q.recent, orders |-> q.orders, txs |-> q.txs, order |-> q.order]
  <2>1. p = [recent |-> p.recent, orders |-> p.orders, txs |-> p.txs, order |-> p.order]
      BY DEF PoolType
  <2> DEFINE orders == {o \in p.orders : o.hash \notin hashes}
             txs == p.txs \ hashes
  <2>2. q = [p EXCEPT !.txs = txs, !.orders = orders]
      BY DEF Updated
  <2> HIDE DEF q, orders, txs
  <2>3. q = [recent |-> p.recent, orders |-> orders, txs |-> txs, order |-> p.order]
      BY <2>1, <2>2
  <2>4. /\ q.recent = p.recent /\ q.order = p.order /\ q.txs = txs /\ q.orders = orders
      BY <2>3
  <2>5. q = [recent |-> q.recent, orders |-> q.orders, txs |-> q.txs, order |-> q.order]
      BY <2>3, <2>4
  <2> QED BY <2>4, <2>5 DEF orders, txs
<1> HIDE DEF q
<1>2. q \in PoolType
    BY <1>1 DEF PoolType
<1>3. q.orders \in SUBSET p.orders /\ IsFiniteSet(p.orders)
    BY <1>1 DEF NodeOK
<1>4. IsFiniteSet(q.orders)
    BY <1>3, FS_Subset
<1>5. \A o \in q.orders : o.hash \in q.txs
    BY <1>1 DEF NodeOK
<1>6. ASSUME NEW x \in Tx
      PROVE  /\ Cardinality(OfHash(q.orders, x)) \in Nat
             /\ Cardinality(OfHash(p.orders, x)) \in Nat
             /\ Cardinality(OfHash(q.orders, x)) <= Cardinality(OfHash(p.orders, x))
  <2>1. OfHash(q.orders, x) \in SUBSET OfHash(p.orders, x) /\ IsFiniteSet(OfHash(p.orders, x))
      BY <1>3, FS_Subset DEF OfHash
  <2>2. /\ Cardinality(OfHash(q.orders, x)) <= Cardinality(OfHash(p.orders, x))
        /\ IsFiniteSet(OfHash(q.orders, x))
      BY <2>1, FS_Subset
  <2> QED BY <2>1, <2>2, FS_CardinalityType
<1>7. RoomFor(q, acc, cap)
  <2> SUFFICES ASSUME Cardinality(Positive(acc)) <= cap
               PROVE  /\ Len(q.recent) = Cardinality(Positive(acc))
                      /\ \A x \in Tx : Contains(q.recent, x) <=> acc[x] > 0
                      /\ \A x \in Tx : acc[x] <= 1 /\ Cardinality(OfHash(q.orders, x)) <= acc[x]
      BY DEF RoomFor
  <2>1. /\ Len(p.recent) = Cardinality(Positive(acc))
        /\ \A x \in Tx : Contains(p.recent, x) <=> acc[x] > 0
        /\ \A x \in Tx : acc[x] <= 1 /\ Cardinality(OfHash(p.orders, x)) <= acc[x]
      BY DEF NodeOK, RoomFor
  <2>2. ASSUME NEW x \in Tx PROVE Cardinality(OfHash(q.orders, x)) <= acc[x]
    <3> DEFINE c == Cardinality(OfHash(p.orders, x))
               d == Cardinality(OfHash(q.orders, x))
    <3>1. c \in Nat /\ d \in Nat /\ d <= c /\ c <= acc[x] /\ acc[x] \in Nat
        BY <1>6, <2>1
    <3> HIDE DEF c, d
    <3>2. d <= acc[x]
        BY <3>1
    <3> QED BY <3>2 DEF d
  <2> QED BY <1>1, <2>1, <2>2
<1> QED
    BY <1>2, <1>4, <1>5, <1>7 DEF NodeOK, q

\* A pool that has just been made.
LEMMA NewPoolOK ==
    ASSUME NEW cap \in Nat \ {0}
    PROVE  NewPool \in PoolType /\ NodeOK(NewPool, [t \in Tx |-> 0], cap)
<1> DEFINE acc == [t \in Tx |-> 0]
<1>1. NewPool \in PoolType
    BY PoolAssumption DEF NewPool, PoolType
<1>2. Positive(acc) = {} /\ \A x \in Tx : OfHash(NewPool.orders, x) = {}
    BY DEF Positive, OfHash, NewPool
<1>3. IsFiniteSet({}) /\ Cardinality({}) = 0
    BY FS_EmptySet
<1>4. RoomFor(NewPool, acc, cap)
  <2>1. NewPool.recent = << >> /\ Len(NewPool.recent) = 0
      BY DEF NewPool
  <2>2. \A x \in Tx : ~Contains(NewPool.recent, x) /\ acc[x] = 0
      BY <2>1 DEF Contains
  <2> HIDE DEF acc
  <2>3. \A x \in Tx : Cardinality(OfHash(NewPool.orders, x)) = 0
      BY <1>2, <1>3, Zenon
  <2>4. Len(NewPool.recent) = Cardinality(Positive(acc))
      BY <1>2, <1>3, <2>1, Zenon
  <2>5. \A x \in Tx : Contains(NewPool.recent, x) <=> acc[x] > 0
      BY <2>2
  <2>6. \A x \in Tx : acc[x] <= 1 /\ Cardinality(OfHash(NewPool.orders, x)) <= acc[x]
      BY <2>2, <2>3
  <2> QED BY <2>4, <2>5, <2>6, Zenon DEF RoomFor
<1>5. NewPool.orders = {}
    BY DEF NewPool
<1> QED
    BY <1>1, <1>2, <1>3, <1>4, <1>5 DEF NodeOK

-----------------------------------------------------------------------------
(* The steps.                                                              *)

\* A step that gives one node another pool and another count.
LEMMA NodeStep ==
    ASSUME GossipIInv, NEW n \in Node, NEW q \in PoolType, NEW acc \in [Tx -> Nat],
           NodeOK(q, acc, Capacity[n]),
           pool' = [pool EXCEPT ![n] = q], accepted' = [accepted EXCEPT ![n] = acc]
    PROVE  /\ pool' \in [Node -> PoolType] /\ accepted' \in [Node -> [Tx -> Nat]]
           /\ \A k \in Node : NodeOK(pool'[k], accepted'[k], Capacity[k])
<1>1. pool \in [Node -> PoolType] /\ accepted \in [Node -> [Tx -> Nat]]
    BY DEF GossipIInv, GossipTypeOK
<1>2. ASSUME NEW k \in Node PROVE NodeOK(pool'[k], accepted'[k], Capacity[k])
  <2>1. CASE k = n
      BY <1>1, <2>1
  <2>2. CASE k # n
      BY <1>1, <2>2 DEF GossipIInv
  <2> QED BY <2>1, <2>2
<1> QED BY <1>1, <1>2

\* What a node's pool is before a step.
LEMMA NodeFacts ==
    ASSUME GossipIInv, NEW n \in Node
    PROVE  /\ pool[n] \in PoolType /\ accepted[n] \in [Tx -> Nat]
           /\ Capacity[n] \in Nat \ {0} /\ NodeOK(pool[n], accepted[n], Capacity[n])
           /\ Peers[n] \in SUBSET Node
BY GossipAssumption DEF GossipIInv, GossipTypeOK

\* The main loop on one transaction.
LEMMA HandleKeeps ==
    ASSUME GossipIInv, NEW n \in Node, NEW t \in Tx,
           NEW streams \in [Node -> [Node -> Seq(Tx)]],
           Handle(n, t, streams)
    PROVE  /\ pool' \in [Node -> PoolType] /\ accepted' \in [Node -> [Tx -> Nat]]
           /\ \A k \in Node : NodeOK(pool'[k], accepted'[k], Capacity[k])
           /\ stream' \in [Node -> [Node -> Seq(Tx)]] /\ lost' \in Nat
<1> DEFINE q == Enqueued(pool[n], t, Capacity[n])
<1>1. /\ pool[n] \in PoolType /\ accepted[n] \in [Tx -> Nat]
      /\ Capacity[n] \in Nat \ {0} /\ NodeOK(pool[n], accepted[n], Capacity[n])
    BY NodeFacts
<1>2. pool' = [pool EXCEPT ![n] = q]
    BY DEF Handle
<1>3. CASE Contains(pool[n].recent, t)
  <2>1. stream' = streams /\ lost' = lost /\ accepted' = accepted
      BY <1>3 DEF Handle
  <2>2. q \in PoolType /\ NodeOK(q, accepted[n], Capacity[n])
      BY <1>1, <1>3, EnqueueKnown
  <2>3. accepted' = [accepted EXCEPT ![n] = accepted[n]]
      BY <2>1 DEF GossipIInv, GossipTypeOK
  <2> HIDE DEF q
  <2> QED BY <1>1, <1>2, <2>1, <2>2, <2>3, NodeStep DEF GossipIInv, GossipTypeOK
<1>4. CASE ~Contains(pool[n].recent, t)
  <2> DEFINE acc == [accepted[n] EXCEPT ![t] = @ + 1]
  <2>1. q \in PoolType /\ NodeOK(q, acc, Capacity[n])
      BY <1>1, <1>4, EnqueueNew
  <2>2. PICK reached \in SUBSET Peers[n] :
          /\ lost' = lost + Cardinality(Peers[n] \ reached) /\ lost' <= MaxLost
          /\ accepted' = [accepted EXCEPT ![n][t] = @ + 1]
          /\ stream' = BroadcastTo(streams, n, t, reached)
      BY <1>4 DEF Handle
  <2>3. accepted' = [accepted EXCEPT ![n] = acc] /\ acc \in [Tx -> Nat]
      BY <1>1, <2>2 DEF GossipIInv, GossipTypeOK
  <2>4. stream' \in [Node -> [Node -> Seq(Tx)]]
      BY <2>2 DEF BroadcastTo
  <2>5. Cardinality(Peers[n] \ reached) \in Nat
    <3>1. Peers[n] \ reached \in SUBSET Node /\ IsFiniteSet(Node)
        BY <1>1, NodeFacts, GossipAssumption
    <3>2. IsFiniteSet(Peers[n] \ reached)
        BY <3>1, FS_Subset
    <3> QED BY <3>2, FS_CardinalityType
  <2>6. lost' \in Nat
      BY <2>2, <2>5 DEF GossipIInv, GossipTypeOK
  <2> HIDE DEF q, acc
  <2> QED BY <1>2, <2>1, <2>3, <2>4, <2>6, NodeStep
<1> QED BY <1>3, <1>4

\* Empty pools and streams satisfy the invariant.
LEMMA InitGossipIInv == GossipInit => GossipIInv
<1> SUFFICES ASSUME GossipInit PROVE GossipIInv
    OBVIOUS
<1>1. NewPool \in PoolType
    BY GossipAssumption, NewPoolOK, PoolAssumption DEF NewPool, PoolType
<1>2. GossipTypeOK
    BY <1>1 DEF GossipInit, GossipTypeOK
<1>3. ASSUME NEW n \in Node PROVE NodeOK(pool[n], accepted[n], Capacity[n])
  <2>1. Capacity[n] \in Nat \ {0}
      BY GossipAssumption
  <2>2. pool[n] = NewPool /\ accepted[n] = [t \in Tx |-> 0]
      BY DEF GossipInit
  <2>3. NodeOK(NewPool, [t \in Tx |-> 0], Capacity[n])
      BY <2>1, NewPoolOK
  <2> QED BY <2>2, <2>3
<1> QED BY <1>2, <1>3 DEF GossipIInv

\* Every submission, message, packaging, update and crash keeps the invariant.
LEMMA NextGossipIInv == GossipIInv /\ [GossipNext]_gossipVars => GossipIInv'
<1> SUFFICES ASSUME GossipIInv, [GossipNext]_gossipVars PROVE GossipIInv'
    OBVIOUS
<1>1. GossipTypeOK
    BY DEF GossipIInv
<1>2. CASE UNCHANGED gossipVars
    BY <1>1, <1>2 DEF GossipIInv, GossipTypeOK, gossipVars
<1>3. ASSUME NEW n \in Node, NEW t \in Tx, Submit(n, t) PROVE GossipIInv'
  <2>1. /\ pool' \in [Node -> PoolType] /\ accepted' \in [Node -> [Tx -> Nat]]
        /\ \A k \in Node : NodeOK(pool'[k], accepted'[k], Capacity[k])
        /\ stream' \in [Node -> [Node -> Seq(Tx)]] /\ lost' \in Nat
      BY <1>1, <1>3, HandleKeeps DEF Submit, GossipTypeOK
  <2>2. submitted' \in Nat /\ mining' = mining
      BY <1>1, <1>3 DEF Submit, GossipTypeOK
  <2> QED BY <1>1, <2>1, <2>2 DEF GossipIInv, GossipTypeOK
<1>4. ASSUME NEW n \in Node, NEW m \in Node, Receive(m, n) PROVE GossipIInv'
  <2> DEFINE streams == [stream EXCEPT ![m][n] = Tail(@)]
  <2>1. stream[m][n] \in Seq(Tx) /\ stream[m][n] # << >>
      BY <1>1, <1>4 DEF GossipTypeOK, Receive
  <2>2. Head(stream[m][n]) \in Tx /\ Tail(stream[m][n]) \in Seq(Tx)
      BY <2>1
  <2>3. streams \in [Node -> [Node -> Seq(Tx)]]
      BY <1>1, <2>2 DEF GossipTypeOK
  <2>4. Handle(n, Head(stream[m][n]), streams)
      BY <1>4 DEF Receive
  <2> HIDE DEF streams
  <2>5. /\ pool' \in [Node -> PoolType] /\ accepted' \in [Node -> [Tx -> Nat]]
        /\ \A k \in Node : NodeOK(pool'[k], accepted'[k], Capacity[k])
        /\ stream' \in [Node -> [Node -> Seq(Tx)]] /\ lost' \in Nat
      BY <2>2, <2>3, <2>4, HandleKeeps
  <2>6. submitted' = submitted /\ mining' = mining
      BY <1>4 DEF Receive
  <2> QED BY <1>1, <2>5, <2>6 DEF GossipIInv, GossipTypeOK
<1>5. ASSUME NEW n \in Node, PackageTxs(n) PROVE GossipIInv'
  <2>1. Packaged(pool[n]) \in SUBSET Tx
    <3>1. pool[n].orders \in SUBSET TxOrder
        BY NodeFacts DEF PoolType
    <3>2. \A o \in pool[n].orders : o.hash \in Tx
        BY <3>1 DEF TxOrder
    <3>3. \A x \in Packaged(pool[n]) : \E o \in pool[n].orders : x = o.hash
        BY Zenon DEF Packaged
    <3> QED BY <3>2, <3>3
  <2>2. mining' \in [Node -> SUBSET Tx] /\ UNCHANGED <<pool, stream, submitted, lost, accepted>>
      BY <1>1, <1>5, <2>1 DEF PackageTxs, GossipTypeOK
  <2> QED BY <1>1, <2>2 DEF GossipIInv, GossipTypeOK
<1>6. ASSUME NEW n \in Node, UpdatePool(n) PROVE GossipIInv'
  <2> DEFINE q == Updated(pool[n], mining[n])
  <2>1. /\ pool[n] \in PoolType /\ accepted[n] \in [Tx -> Nat]
        /\ Capacity[n] \in Nat \ {0} /\ NodeOK(pool[n], accepted[n], Capacity[n])
        /\ mining[n] \in SUBSET Tx
      BY <1>1, NodeFacts DEF GossipTypeOK
  <2>2. q \in PoolType /\ NodeOK(q, accepted[n], Capacity[n])
      BY <2>1, UpdateKeeps
  <2>3. /\ pool' = [pool EXCEPT ![n] = q] /\ accepted' = [accepted EXCEPT ![n] = accepted[n]]
        /\ mining' \in [Node -> SUBSET Tx] /\ UNCHANGED <<stream, submitted, lost>>
      BY <1>1, <1>6 DEF UpdatePool, GossipTypeOK
  <2> HIDE DEF q
  <2>4. /\ pool' \in [Node -> PoolType] /\ accepted' \in [Node -> [Tx -> Nat]]
        /\ \A k \in Node : NodeOK(pool'[k], accepted'[k], Capacity[k])
      BY <2>1, <2>2, <2>3, NodeStep
  <2> QED BY <1>1, <2>3, <2>4 DEF GossipIInv, GossipTypeOK
<1>7. ASSUME NEW n \in Node, Crash(n) PROVE GossipIInv'
  <2> DEFINE acc == [t \in Tx |-> 0]
  <2>1. NewPool \in PoolType /\ NodeOK(NewPool, acc, Capacity[n]) /\ acc \in [Tx -> Nat]
      BY NodeFacts, NewPoolOK
  <2>2. /\ pool' = [pool EXCEPT ![n] = NewPool] /\ accepted' = [accepted EXCEPT ![n] = acc]
        /\ mining' \in [Node -> SUBSET Tx] /\ lost' \in Nat /\ submitted' = submitted
      BY <1>1, <1>7 DEF Crash, GossipTypeOK
  <2>3. stream' \in [Node -> [Node -> Seq(Tx)]]
      BY <1>1, <1>7 DEF Crash, GossipTypeOK
  <2> HIDE DEF acc
  <2>4. /\ pool' \in [Node -> PoolType] /\ accepted' \in [Node -> [Tx -> Nat]]
        /\ \A k \in Node : NodeOK(pool'[k], accepted'[k], Capacity[k])
      BY <2>1, <2>2, NodeStep
  <2> QED BY <1>1, <2>2, <2>3, <2>4 DEF GossipIInv, GossipTypeOK
<1> QED
    BY <1>2, <1>3, <1>4, <1>5, <1>6, <1>7 DEF GossipNext

-----------------------------------------------------------------------------
(* Theorems.                                                               *)

\* The invariant holds of every run, for any nodes, transactions and
\* capacities.
THEOREM GossipInvariance == GossipSpec => []GossipIInv
BY InitGossipIInv, NextGossipIInv, PTL DEF GossipSpec

\* In every run the pools, streams and counters are well typed.
THEOREM GossipTypeCorrect == GossipSpec => []GossipTypeOK
<1>1. GossipIInv => GossipTypeOK
    BY DEF GossipIInv
<1> QED BY <1>1, GossipInvariance, PTL

\* No run reaches package's `panic!("invalid tx order")'.
THEOREM PackageNeverPanics == GossipSpec => []OrdersHaveTxs
<1>1. GossipIInv => OrdersHaveTxs
    BY DEF GossipIInv, NodeOK, OrdersHaveTxs
<1> QED BY <1>1, GossipInvariance, PTL

\* A node with room in its filter takes each transaction in once, however the
\* messages go round, with any number of transactions, messages lost and crashes.
THEOREM TakenInOnce == GossipSpec => []AcceptedOnce
<1>1. ASSUME GossipIInv PROVE AcceptedOnce
  <2> SUFFICES ASSUME NEW n \in Node, Cardinality(Seen(n)) <= Capacity[n], NEW t \in Tx
               PROVE  /\ accepted[n][t] <= 1
                      /\ Cardinality({o \in pool[n].orders : o.hash = t}) <= accepted[n][t]
      BY DEF AcceptedOnce
  <2>1. RoomFor(pool[n], accepted[n], Capacity[n])
      BY <1>1 DEF GossipIInv, NodeOK
  <2>2. Positive(accepted[n]) = Seen(n)
      BY DEF Positive, Seen
  <2> QED BY <2>1, <2>2 DEF RoomFor, OfHash
<1> QED BY <1>1, GossipInvariance, PTL

=============================================================================
