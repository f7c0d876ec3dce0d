--------------------------------- MODULE Rlp ---------------------------------
(***************************************************************************)
(* The encoding of util/rlp.  A value is a tree: [data |-> bytes], or        *)
(* [items |-> trees] for a list.  The first byte of an item tells a single   *)
(* byte, short or long data and a short or long list apart; the three sizes  *)
(* are constants: 128, 55 and 8 in the code, so that Base is 256 there.        *)
(*                                                                           *)
(* A result is [ok |-> value] or [err |-> error].                            *)
(***************************************************************************)
EXTENDS Integers, Sequences, SequencesExt

CONSTANTS Single,    \* the bytes below are their own encoding
          Short,     \* the longest payload whose length is in the first byte
          LenBytes   \* the most bytes the length of a long payload takes

Data == Single
LongData == Data + Short
List == LongData + LenBytes + 1
LongList == List + Short
Base == LongList + LenBytes + 1

Ok(x) == [ok |-> x]
Err(e) == [err |-> e]
IsOk(r) == "ok" \in DOMAIN r
\* The `?' of the code: an error is the result, a value is gone on with.
Then(r, F(_)) == IF IsOk(r) THEN F(r.ok) ELSE r
IsData(tree) == "data" \in DOMAIN tree

RECURSIVE BigEndian(_)
BigEndian(n) == IF n = 0 THEN <<>> ELSE Append(BigEndian(n \div Base), n % Base)
Natural(bytes) == FoldLeft(LAMBDA n, b : n * Base + b, 0, bytes)

\* What an encoding is: an item's bytes, by its tree.
WithHeader(short, payload) ==
  LET size == BigEndian(Len(payload))
  IN  IF Len(payload) <= Short THEN <<short + Len(payload)>> \o payload
      ELSE <<short + Short + Len(size)>> \o size \o payload

RECURSIVE Encoding(_)
Encoding(tree) ==
  CASE ~IsData(tree) ->
         WithHeader(List, FlattenSeq([i \in DOMAIN tree.items |-> Encoding(tree.items[i])]))
    [] IsData(tree) /\ Len(tree.data) = 1 /\ tree.data[1] < Single -> tree.data
    [] OTHER -> WithHeader(Data, tree.data)

-----------------------------------------------------------------------------
(* RlpStream: what was appended, and the lists that still lack items.  An    *)
(* open list has its place in the buffer reserved by a zero at `position'.   *)

Unbounded == -1
NewStream == [buffer |-> <<>>, lists |-> <<>>, finished |-> FALSE]
ListInfo(position, max) == [position |-> position, current |-> 0, max |-> max]

EncodedValue(value) ==
  IF Len(value) = 1 /\ value[1] < Single THEN value
  ELSE IF Len(value) <= Short THEN <<Data + Len(value)>> \o value
  ELSE LET size == BigEndian(Len(value)) IN <<LongData + Len(size)>> \o size \o value

InsertListPayload(buffer, position) ==
  LET payload == SubSeq(buffer, position + 1, Len(buffer))
      size == IF Len(payload) <= Short THEN <<>> ELSE BigEndian(Len(payload))
      header == IF Len(payload) <= Short THEN List + Len(payload) ELSE LongList + Len(size)
  IN  SubSeq(buffer, 1, position - 1) \o <<header>> \o size \o payload

\* The innermost list is finished.
Popped(s) ==
  [s EXCEPT !.lists = Front(@), !.buffer = InsertListPayload(@, Last(s.lists).position)]

\* note_appended panics when a list gets more items than it was begun with.
Overfills(s, n) ==
  s.lists # <<>> /\ Last(s.lists).max # Unbounded /\ Last(s.lists).current + n > Last(s.lists).max

RECURSIVE NoteAppended(_, _)
NoteAppended(s, n) ==
  LET full == Last(s.lists).current + n = Last(s.lists).max IN
  CASE s.lists = <<>> -> s
    [] s.lists # <<>> /\ full -> [NoteAppended(Popped(s), 1) EXCEPT !.finished = TRUE]
    [] OTHER -> [s EXCEPT !.lists[Len(s.lists)].current = @ + n, !.finished = FALSE]

Opened(s, max) ==
  [s EXCEPT !.buffer = Append(@, 0), !.finished = FALSE,
            !.lists = Append(@, ListInfo(Len(s.buffer) + 1, max))]

Begun(s, len) ==
  IF len = 0
  THEN [NoteAppended([s EXCEPT !.buffer = Append(@, List)], 1) EXCEPT !.finished = TRUE]
  ELSE Opened(s, len)

\* append: rlp_append of a value, counted unless a list just finished.  A list
\* is what Option, Vec and the derived structures append.
RECURSIVE Appended(_, _)
Appended(s, tree) ==
  LET fresh == [s EXCEPT !.finished = FALSE]
      new == IF IsData(tree) THEN [fresh EXCEPT !.buffer = @ \o EncodedValue(tree.data)]
             ELSE FoldLeft(LAMBDA t, x : Appended(t, x), Begun(fresh, Len(tree.items)), tree.items)
  IN  IF new.finished THEN new ELSE NoteAppended(new, 1)

AppendedEmpty(s) == NoteAppended([s EXCEPT !.buffer = Append(@, Data)], 1)
AppendedRaw(s, bytes, n) == NoteAppended([s EXCEPT !.buffer = @ \o bytes], n)
Completed(s) == NoteAppended(Popped(s), 1)
Cleared(s) == [s EXCEPT !.buffer = <<>>, !.lists = <<>>]

EstimateSize(s, add) ==
  LET total == Len(s.buffer) + add
      SizeBytes(list) == IF total - list.position > Short
                         THEN Len(BigEndian(total - list.position)) ELSE 0
  IN  FoldLeft(LAMBDA n, list : n + SizeBytes(list), total, s.lists)

-----------------------------------------------------------------------------
(* UntrustedRlp: a view of bytes, with the place of the item read last.      *)

CalculatePayloadInfo(bytes, lenOfLen) ==
  CASE Len(bytes) > 1 /\ bytes[2] = 0 -> Err("RlpDataLenWithZeroPrefix")
    [] ~(Len(bytes) > 1 /\ bytes[2] = 0) /\ Len(bytes) < 1 + lenOfLen -> Err("RlpIsTooShort")
    [] OTHER -> Ok([header |-> 1 + lenOfLen, value |-> Natural(SubSeq(bytes, 2, 1 + lenOfLen))])

PayloadInfo(bytes) ==
  CASE bytes = <<>> -> Err("RlpIsTooShort")
    [] bytes # <<>> /\ bytes[1] < Data -> Ok([header |-> 0, value |-> 1])
    [] bytes # <<>> /\ bytes[1] \in Data .. LongData -> Ok([header |-> 1, value |-> bytes[1] - Data])
    [] bytes # <<>> /\ bytes[1] \in LongData + 1 .. List - 1 ->
         CalculatePayloadInfo(bytes, bytes[1] - LongData)
    [] bytes # <<>> /\ bytes[1] \in List .. LongList -> Ok([header |-> 1, value |-> bytes[1] - List])
    [] OTHER -> CalculatePayloadInfo(bytes, bytes[1] - LongList)

Total(info) == info.header + info.value

\* BasicDecoder::payload_info: the first item is there as a whole.
ItemInfo(bytes) ==
  Then(PayloadInfo(bytes),
       LAMBDA info : IF Total(info) > Len(bytes) THEN Err("RlpIsTooShort") ELSE Ok(info))

Consumed(bytes, len) == SubSeq(bytes, len + 1, Len(bytes))

NewView(bytes) == [bytes |-> bytes, cache |-> <<>>]
IsListView(bytes) == bytes # <<>> /\ bytes[1] >= List
IsDataView(bytes) == bytes # <<>> /\ bytes[1] < List

RECURSIVE ConsumeItems(_, _)
ConsumeItems(bytes, n) ==
  IF n = 0 THEN Ok(bytes)
  ELSE Then(ItemInfo(bytes), LAMBDA info : ConsumeItems(Consumed(bytes, Total(info)), n - 1))

ListPayload(bytes) == Then(ItemInfo(bytes), LAMBDA info : Ok(Consumed(bytes, info.header)))
FirstItem(bytes) == Then(ItemInfo(bytes), LAMBDA info : Ok(SubSeq(bytes, 1, Total(info))))

\* A faulty variant: the cached place is taken for an earlier item, too.
RestBehind(view, index) ==
  IF view.cache # <<>>
  THEN ConsumeItems(Consumed(view.bytes, view.cache[2]),
                    IF index < view.cache[1] THEN 0 ELSE index - view.cache[1])
  ELSE Then(ListPayload(view.bytes), LAMBDA payload : ConsumeItems(payload, index))

\* The bytes from the item on, found from the cached place or from the start.
Rest(view, index) ==
  IF view.cache # <<>> /\ view.cache[1] <= index
  THEN ConsumeItems(Consumed(view.bytes, view.cache[2]), index - view.cache[1])
  ELSE Then(ListPayload(view.bytes), LAMBDA payload : ConsumeItems(payload, index))

ReadFrom(view, index, rest) ==
  IF ~IsOk(rest) THEN [result |-> rest, view |-> view]
  ELSE [result |-> FirstItem(rest.ok),
        view |-> [view EXCEPT !.cache = <<index, Len(view.bytes) - Len(rest.ok)>>]]

At(view, index) ==
  IF IsListView(view.bytes) THEN ReadFrom(view, index, Rest(view, index))
  ELSE [result |-> Err("RlpExpectedToBeList"), view |-> view]

\* The iterator ends with the first item that cannot be read.
RECURSIVE ItemsFrom(_, _)
ItemsFrom(view, index) ==
  LET Listed(at) == IF IsOk(at.result) THEN <<at.result.ok>> \o ItemsFrom(at.view, index + 1)
                    ELSE <<>>
  IN  Listed(At(view, index))
Items(bytes) == ItemsFrom(NewView(bytes), 0)
ItemCount(bytes) ==
  IF IsListView(bytes) THEN Ok(Len(Items(bytes))) ELSE Err("RlpExpectedToBeList")

\* is_int looks behind the header without looking whether there is a byte.
IsInt(bytes) ==
  LET behind == IF bytes[1] <= LongData THEN 2 ELSE 2 + bytes[1] - LongData IN
  CASE bytes = <<>> \/ bytes[1] >= List -> FALSE
    [] bytes # <<>> /\ bytes[1] <= Data -> TRUE
    [] OTHER -> IF Len(bytes) < behind THEN "panic" ELSE bytes[behind] # 0

\* A faulty variant: a single byte may also be written with a header.
DecodeValueIndirect(bytes) ==
  IF ~IsDataView(bytes) THEN Err("RlpExpectedToBeData")
  ELSE Then(ItemInfo(bytes), LAMBDA info : Ok(SubSeq(bytes, info.header + 1, Total(info))))

\* decode_value reads the header by itself.  A place that is no usize, of as many
\* bytes as a length may take, is a length of its own kind of invalid.
DecodeValue(bytes) ==
  LET first == bytes[1]
      lenOfLen == first - LongData
      header == 1 + lenOfLen
      len == Natural(SubSeq(bytes, 2, header))
      Slice(from, to) == IF Len(bytes) < to THEN Err("RlpInconsistentLengthAndData")
                         ELSE Ok(SubSeq(bytes, from, to))
  IN  CASE bytes = <<>> -> Err("RlpIsTooShort")
        [] bytes # <<>> /\ first < Data -> Ok(<<first>>)
        [] bytes # <<>> /\ first \in Data .. LongData ->
             IF first = Data + 1 /\ Len(bytes) > 1 /\ bytes[2] < Single
             THEN Err("RlpInvalidIndirection") ELSE Slice(2, 1 + first - Data)
        [] bytes # <<>> /\ first \in LongData + 1 .. List - 1 ->
             CASE Len(bytes) < header -> Err("RlpInconsistentLengthAndData")
               [] Len(bytes) >= header /\ bytes[2] = 0 -> Err("RlpInvalidIndirection")
               [] Len(bytes) >= header /\ bytes[2] # 0 /\ header + len >= Base ^ LenBytes ->
                    Err("RlpInvalidLength")
               [] OTHER -> Slice(header + 1, header + len)
        [] OTHER -> Err("RlpExpectedToBeData")

\* The first error of a sequence of results, or what they are.
Collected(results) ==
  LET failed == {i \in DOMAIN results : ~IsOk(results[i])}
  IN  IF failed # {} THEN results[CHOOSE i \in failed : \A j \in failed : i <= j]
      ELSE Ok([i \in DOMAIN results |-> results[i].ok])

\* A value of any shape: data, or the list of what its items decode to.
RECURSIVE Decoded(_)
Decoded(bytes) ==
  LET Each(items) == Collected([i \in DOMAIN items |-> Decoded(items[i])])
  IN  IF IsListView(bytes) THEN Then(Each(Items(bytes)), LAMBDA items : Ok([items |-> items]))
      ELSE Then(DecodeValue(bytes), LAMBDA data : Ok([data |-> data]))

-----------------------------------------------------------------------------
(* Integers, bool, hashes and Option                                        *)

IntTree(n) == [data |-> BigEndian(n)]
BoolTree(b) == [data |-> IF b THEN <<1>> ELSE <<0>>]
OptionTree(option) == [items |-> option]

\* u8 .. u64 of `size' bytes.
DecodedInt(bytes, size) ==
  Then(DecodeValue(bytes),
       LAMBDA d : CASE Len(d) > size -> Err("RlpIsTooBig")
                    [] Len(d) \in 1 .. size /\ d[1] = 0 -> Err("RlpInvalidIndirection")
                    [] OTHER -> Ok(Natural(d)))

\* U128 and U256: the zero is looked at before the length.
DecodedUint(bytes, size) ==
  Then(DecodeValue(bytes),
       LAMBDA d : CASE d # <<>> /\ d[1] = 0 -> Err("RlpInvalidIndirection")
                    [] d # <<>> /\ d[1] # 0 /\ Len(d) > size -> Err("RlpIsTooBig")
                    [] OTHER -> Ok(Natural(d)))

DecodedBool(bytes) ==
  Then(DecodeValue(bytes),
       LAMBDA d : IF Len(d) > 1 THEN Err("RlpIsTooBig") ELSE Ok(d # <<>> /\ d[1] # 0))

DecodedHash(bytes, size) ==
  Then(DecodeValue(bytes),
       LAMBDA d : CASE Len(d) < size -> Err("RlpIsTooShort")
                    [] Len(d) > size -> Err("RlpIsTooBig")
                    [] OTHER -> Ok(d))

\* An Option of a byte string.
DecodedOption(bytes) ==
  Then(ItemCount(bytes),
       LAMBDA count : CASE count = 0 -> Ok(<<>>)
                        [] count = 1 -> Then(DecodeValue(Items(bytes)[1]), LAMBDA some : Ok(<<some>>))
                        [] OTHER -> Err("RlpIncorrectListLen"))

-----------------------------------------------------------------------------
(* What rlp_derive generates for a structure of values and of Vecs of values. *)

StructTree(fields) == [items |-> fields]

\* as_list: what is no list has no items.
AsList(bytes) ==
  LET Each(items) == Collected([i \in DOMAIN items |-> DecodeValue(items[i])]) IN Each(Items(bytes))

\* val_at or list_at for each field; nothing asks whether there are more items.
DecodedStruct(bytes, kinds) ==
  Collected([i \in DOMAIN kinds |->
               Then(At(NewView(bytes), i - 1).result,
                    LAMBDA item : IF kinds[i] = "list" THEN AsList(item) ELSE DecodeValue(item))])

-----------------------------------------------------------------------------
(* Compression: the k-th of the common encodings is swapped with an invalid  *)
(* one, the byte k - 1 with a header.                                       *)

Invalid(k) == <<Data + 1, k - 1>>
GetInvalid(common, bytes) ==
  IF \E k \in DOMAIN common : common[k] = bytes
  THEN Invalid(CHOOSE k \in DOMAIN common : common[k] = bytes) ELSE bytes
GetValid(common, bytes) ==
  IF \E k \in DOMAIN common : Invalid(k) = bytes
  THEN Ok(common[CHOOSE k \in DOMAIN common : Invalid(k) = bytes]) ELSE Err("None")

\* map_rlp, of the items' new encodings.
MappedList(items) ==
  FoldLeft(LAMBDA s, item : AppendedRaw(s, item, 1), Begun(NewStream, Len(items)), items).buffer

\* An empty list stays as it is.
Remade(bytes, items) == IF items = <<>> THEN bytes ELSE MappedList(items)

RECURSIVE Compressed(_, _)
Compressed(common, bytes) ==
  LET Each(items) == [i \in DOMAIN items |-> Compressed(common, items[i])]
  IN  IF IsDataView(bytes) THEN GetInvalid(common, bytes) ELSE Remade(bytes, Each(Items(bytes)))

Else(r, x) == IF IsOk(r) THEN r.ok ELSE x

RECURSIVE SimpleDecompressed(_, _)
SimpleDecompressed(common, bytes) ==
  LET Each(items) == [i \in DOMAIN items |-> SimpleDecompressed(common, items[i])]
  IN  IF IsDataView(bytes) THEN Else(GetValid(common, bytes), bytes)
      ELSE Remade(bytes, Each(Items(bytes)))

\* A list of the largest invalid byte and an item holds compressed data.
RECURSIVE DeepDecompressed(_, _)
DeepDecompressed(common, bytes) ==
  LET Each(items) == [i \in DOMAIN items |-> DeepDecompressed(common, items[i])]
      Made(items, deep) ==
        CASE Len(items) = 2 /\ items[1] = Invalid(Single) ->
               Then(deep[2], LAMBDA value : Ok(EncodedValue(value)))
          [] ~(Len(items) = 2 /\ items[1] = Invalid(Single)) /\ \E i \in DOMAIN deep : IsOk(deep[i]) ->
               Ok(MappedList([i \in DOMAIN items |-> Else(deep[i], items[i])]))
          [] OTHER -> Err("None")
      OfItems(items) == Made(items, Each(items))
  IN  IF IsDataView(bytes) THEN GetValid(common, bytes) ELSE OfItems(Items(bytes))

Decompressed(common, bytes) == Else(DeepDecompressed(common, bytes), bytes)

=============================================================================
